---- MODULE Spec2Model ----
(***************************************************************************)
(* A model of fs/scfs/scfs.c: the cluster index (get_cluster_info,         *)
(* scfs_reload_meta), the footer commit (scfs_write_meta, scfs_write_cinfo)*)
(* and the lower-file session (scfs_get_lower_file, scfs_put_lower_file).  *)
(*                                                                         *)
(* One inode is modelled.  Its scfs_inode_info is the record sii, the      *)
(* super block counters are the record sbi and the lower file is the       *)
(* record lower.  The functions of scfs.c are operators from a world       *)
(* [sii, sbi, lower] to a result [w, ret, ...]; the actions apply them.    *)
(***************************************************************************)
EXTENDS Integers, Sequences, FiniteSets, TLC

\* ------------------------------------------------------------ bounds
\* Number of request threads of the session specification.
NThreads == 2
\* Largest number of clusters the upper file grows to.
MaxClusters == 2
\* Largest number of write calls (appends) made in one behaviour of SpecSession.
MaxSessionWrites == 1
\* Largest number of release calls made without a reference (SpecMisuse).
MaxExtraPut == 2
\* The write path stops once sbi->total_cluster_count has reached this value
\* (entries freed without being counted down make the counter drift upwards).
MaxCounted == 3
\* Largest f_bavail the lower file system reports to scfs_check_space.
MaxBlocks == 24
\* Largest number of files that hold a cluster buffer (sbi->current_file_count).
MaxFiles == 2
\* Largest count (bytes) asked of scfs_lower_read / scfs_lower_write.
MaxCount == 3
\* The transient results of one call are counted up to this number.
MaxInterrupts == 4
\* Longest pending list handed to scfs_write_cinfo on its own.
MaxPending == 5

\* ------------------------------------------------------------ program constants
\* sii->cluster_size, copied from the mount options (bytes of one cluster).
ClusterSize == 8
\* SCFS_CLUSTER_ALIGN_BYTE: cluster starts are aligned to this many bytes.
SCFS_CLUSTER_ALIGN_BYTE == 4
\* sizeof(struct scfs_cinfo): one index record.
CinfoSize == 8
\* CF_SIZE, sizeof(struct comp_footer): the fixed footer.
CF_SIZE == 24
\* PAGE_SIZE, in the unit of ClusterSize (a cluster is two pages).
PAGE_SIZE == 4
\* SCFS_IO_MAX_RETRY: the ceiling of the retry counter of the lower I/O loops.
SCFS_IO_MAX_RETRY == 2

\* sbi->options.comp_threshold values the mount may have chosen (percent).
Thresholds == {50, 100}
\* enum comp_type: LZO has its own path, the others go through crypto_comp.
CompTypes == {"LZO", "ZLIB"}

Threads == 1 .. NThreads

\* ALIGN(x, a) of the kernel: x rounded up to a multiple of a.
ALIGN(x, a) == ((x + a - 1) \div a) * a

Max(a, b) == IF a >= b THEN a ELSE b

Last(s) == s[Len(s)]

Front(s) == SubSeq(s, 1, Len(s) - 1)

\* ------------------------------------------------------------ state
VARIABLES
    sii,      \* struct scfs_inode_info of the file
    sbi,      \* struct scfs_sb_info: counters and mount options
    lower,    \* the lower file: its length, footer and index region
    pc,       \* per thread: where it is in scfs_get_lower_file / scfs_put_lower_file
    loc,      \* per thread: locals (count, ret) and the references it holds
    res,      \* what the last atomic call returned (operation, ret, target, ...)
    hist      \* history: calls and lower-file writes made so far

vars == <<sii, sbi, lower, pc, loc, res, hist>>

World == [sii |-> sii, sbi |-> sbi, lower |-> lower]

NoFooter == [magic |-> FALSE, cluster_size |-> 0, comp_type |-> "LZO",
             original_file_size |-> 0, footer_size |-> 0]

\* The inode after scfs_initialize_file on a new compressible file.
InitSii(ctype, compressable) ==
    [lower_file_count  |-> 0,
     lower_file        |-> "NULL",
     lower_file_mutex  |-> 0,
     cinfo_list_mutex  |-> 0,
     compressable      |-> compressable,   \* flags & SCFS_DATA_COMPRESSABLE
     invalid_meta      |-> FALSE,          \* flags & SCFS_INVALID_META
     compressed        |-> FALSE,          \* sii->compressed
     comp_type         |-> ctype,
     i_size            |-> 0,              \* i_size_read(&sii->vfs_inode)
     upper_file_size   |-> 0,
     cinfo_array       |-> << >>,          \* committed descriptors
     cinfo_array_st    |-> "NULL",         \* NULL, valid or freed (dangling)
     cinfo_array_size  |-> 0,              \* bytes
     cinfo_list        |-> << >>,          \* pending cinfo_entry list
     original_size     |-> 0,              \* cluster_buffer.original_size
     u_buffer          |-> FALSE,          \* cluster_buffer.u_page allocated
     c_buffer          |-> FALSE]

InitSbi(thr) ==
    [total_cluster_count |-> 0,
     current_file_count  |-> 0,
     current_data_size   |-> 0,
     comp_threshold      |-> thr]

\* The lower file: its length, the footer last written and where, the index
\* records last written and where.  fpos = -1: no footer in the file.
InitLower ==
    [size |-> 0, footer |-> NoFooter, fpos |-> -1, index |-> << >>, ipos |-> -1]

\* ------------------------------------------------------------ lower file
Overlaps(p, n, q, m) == n > 0 /\ m > 0 /\ p < q + m /\ q < p + n

\* The lower file after a successful scfs_lower_write of len bytes at pos.
\* kind: "cluster" (cluster bytes and padding), "index" (the first write of index
\* records), "index_more" (records continuing the index region), "footer".
\* A write over the old footer or the old index region destroys it.
lower_written(l, pos, len, kind, payload) ==
    LET keepF == l.fpos >= 0 /\ ~Overlaps(pos, len, l.fpos, CF_SIZE)
        keepI == l.ipos >= 0
                 /\ ~Overlaps(pos, len, l.ipos, Len(l.index) * CinfoSize)
        base == [size   |-> Max(l.size, pos + len),
                 footer |-> IF keepF THEN l.footer ELSE NoFooter,
                 fpos   |-> IF keepF THEN l.fpos ELSE -1,
                 index  |-> IF keepI THEN l.index ELSE << >>,
                 ipos   |-> IF keepI THEN l.ipos ELSE -1]
    IN  CASE kind = "footer" ->
               [base EXCEPT !.footer = payload, !.fpos = pos]
          [] kind = "index" ->
               [base EXCEPT !.index = payload, !.ipos = pos]
          [] kind = "index_more" ->
               [base EXCEPT !.index = l.index \o payload, !.ipos = l.ipos]
          [] OTHER -> base

WriteEv(kind, pos, len) == [ev |-> "write", kind |-> kind, pos |-> pos, len |-> len]

Ev(name) == [ev |-> name]

\* The number of events of a log that satisfy Test.
RECURSIVE CountEv(_, _)
CountEv(log, name) ==
    IF log = << >> THEN 0
    ELSE (IF Head(log).ev = name THEN 1 ELSE 0) + CountEv(Tail(log), name)

RECURSIVE CountWrites(_, _)
CountWrites(log, kind) ==
    IF log = << >> THEN 0
    ELSE (IF Head(log).ev = "write" /\ Head(log).kind = kind THEN 1 ELSE 0)
         + CountWrites(Tail(log), kind)

\* ------------------------------------------------------------ codec
\* What the codec does on one call: c.nomem (work memory or tfm handle cannot be
\* allocated), c.fail (the codec reports an error), c.produced (bytes it produced).
\* scfs_compress returns [ret, actual]: actual is *actual after the call.
scfs_compress(algo, len, actual_in, c) ==
    IF c.nomem THEN [ret |-> "ENOMEM", actual |-> actual_in]
    ELSE IF algo = "LZO"
         THEN [ret |-> IF c.fail THEN "EIO" ELSE "OK", actual |-> c.produced]
         ELSE [ret |-> IF c.fail THEN "EIO" ELSE "OK", actual |-> actual_in]

\* scfs_decompress returns [ret, actual] in the same way; the LZO path has no
\* allocation.
scfs_decompress(algo, len, actual_in, c) ==
    IF algo = "LZO"
    THEN [ret |-> IF c.fail THEN "EIO" ELSE "OK", actual |-> c.produced]
    ELSE IF c.nomem THEN [ret |-> "ENOMEM", actual |-> actual_in]
    ELSE [ret |-> IF c.fail THEN "EIO" ELSE "OK", actual |-> actual_in]

\* ------------------------------------------------------------ buffers
\* buf_free_out of scfs_write_meta: both scratch pages are given back.
buf_free_out(w) ==
    [w EXCEPT !.sii.c_buffer = FALSE,
              !.sii.u_buffer = FALSE,
              !.sbi.current_file_count = IF w.sii.u_buffer THEN @ - 1 ELSE @]

\* free_out of scfs_write_meta: every pending entry is freed, the index mutex
\* is released, then buf_free_out.
free_out(w) ==
    buf_free_out([w EXCEPT !.sii.cinfo_list = << >>,
                           !.sii.cinfo_list_mutex = 0])

scfs_get_comp_buffer(w) ==
    [w EXCEPT !.sii.u_buffer = TRUE,
              !.sii.c_buffer = TRUE,
              !.sbi.current_file_count = IF w.sii.u_buffer THEN @ ELSE @ + 1]

make_meta_invalid(w) == [w EXCEPT !.sii.invalid_meta = TRUE]

clear_meta_invalid(w) == [w EXCEPT !.sii.invalid_meta = FALSE]

\* ------------------------------------------------------------ footer commit
\* What the lower layer does during one call (the nondeterminism of a call):
\*   io.comp    what the codec does (see scfs_compress)
\*   io.fail    the lower write that fails: "none", "cluster", "array", "batch1",
\*              "batch2", "footer", "trunc"
\*   io.open_ok whether scfs_privileged_open succeeds
\*   io.read    the lower read that fails in a reload: "none", "footer", "index"
\*   io.nomem   whether scfs_cinfo_alloc fails in a reload

GarbageDesc == [offset |-> -1, size |-> -1]

Desc(e) == [offset |-> e.offset, size |-> e.size]

\* A commit that copies one record less of the committed array.
ArrayPrefixShort(s, k) ==
    [i \in 1 .. k |-> IF s.cinfo_array_st = "valid" /\ i < Len(s.cinfo_array)
                      THEN s.cinfo_array[i] ELSE GarbageDesc]

\* The first k records of the memory sii->cinfo_array points to.
ArrayPrefix(s, k) ==
    [i \in 1 .. k |-> IF s.cinfo_array_st = "valid" /\ i <= Len(s.cinfo_array)
                      THEN s.cinfo_array[i] ELSE GarbageDesc]

BatchName(k) == IF k = 1 THEN "batch1" ELSE IF k = 2 THEN "batch2" ELSE "never"

\* A batch that is written one record too late.
batch_full_late(nbytes) == nbytes > 2 * ClusterSize

\* Lines 788-790: after a record was copied, buf_pos is past
\* u_buffer + (2 * cluster_size - cinfo_size).
batch_full(nbytes) == nbytes > 2 * ClusterSize - CinfoSize

\* The loop of scfs_write_cinfo over the pending list.  st.buf holds the records
\* staged in u_buffer, st.batch counts the write calls, st.first tells whether
\* the next write starts the index region.
RECURSIVE cinfo_loop(_, _)
cinfo_loop(st, io) ==
    IF st.w.sii.cinfo_list = << >>
    THEN [w |-> st.w, ret |-> "OK", n |-> st.written, pos |-> st.pos, log |-> st.log]
    ELSE LET rest == Tail(st.w.sii.cinfo_list)
             buf == Append(st.buf, Desc(Head(st.w.sii.cinfo_list)))
             w1 == [st.w EXCEPT !.sii.cinfo_list = rest]
             nbytes == Len(buf) * CinfoSize
         IN  IF batch_full(nbytes) \/ rest = << >>
             THEN IF io.fail = BatchName(st.batch)
                  THEN [w |-> make_meta_invalid(w1), ret |-> "EIO", n |-> 0,
                        pos |-> st.pos, log |-> st.log]
                  ELSE cinfo_loop(
                         [w |-> [w1 EXCEPT
                                   !.lower = lower_written(@, st.pos, nbytes,
                                       IF st.first THEN "index" ELSE "index_more", buf),
                                   !.sbi.total_cluster_count = @ - (nbytes \div CinfoSize)],
                          buf |-> << >>,
                          pos |-> st.pos + nbytes,
                          written |-> st.written + nbytes,
                          batch |-> st.batch + 1,
                          first |-> FALSE,
                          log |-> Append(st.log,
                                   [ev |-> "write", kind |-> "cinfo", pos |-> st.pos,
                                    len |-> nbytes, staged |-> nbytes, recs |-> buf])],
                         io)
             ELSE cinfo_loop([st EXCEPT !.w = w1, !.buf = buf], io)

\* scfs_write_cinfo(sii, &pos): returns [w, ret, n (bytes written), pos, log].
scfs_write_cinfo(w, pos, io) ==
    LET hasArr == w.sii.cinfo_array_size # 0
        alen == CinfoSize * Head(w.sii.cinfo_list).idx
    IN  IF hasArr /\ alen > 0 /\ io.fail = "array"
        THEN [w |-> make_meta_invalid(w), ret |-> "EIO", n |-> 0, pos |-> pos,
              log |-> << >>]
        ELSE cinfo_loop(
               [w |-> IF hasArr
                      THEN [w EXCEPT !.lower = lower_written(@, pos, alen, "index",
                                ArrayPrefix(w.sii, Head(w.sii.cinfo_list).idx))]
                      ELSE w,
                buf |-> << >>,
                pos |-> IF hasArr THEN pos + alen ELSE pos,
                written |-> IF hasArr THEN alen ELSE 0,
                batch |-> 1,
                first |-> ~hasArr,
                log |-> IF hasArr THEN << WriteEv("array", pos, alen) >> ELSE << >>],
               io)

\* A footer that counts the fixed part only.
footer_size_fixed(written) == CF_SIZE

\* Lines 877 and 887: cf.footer_size is the index bytes written plus CF_SIZE.
footer_size(written) == written + CF_SIZE

\* scfs_write_meta from the composition of the fixed footer to the return.
\* written is cf.footer_size before CF_SIZE is added (the index bytes written).
write_footer(w, pos, written, io, log) ==
    LET fsz == footer_size(written)
        cf == [magic |-> TRUE, cluster_size |-> ClusterSize,
               comp_type |-> w.sii.comp_type,
               original_file_size |-> w.sii.i_size, footer_size |-> fsz]
        w1 == [w EXCEPT !.lower = lower_written(@, pos, CF_SIZE, "footer", cf)]
        log1 == Append(log, [ev |-> "write", kind |-> "footer", pos |-> pos,
                             len |-> CF_SIZE, cf |-> cf])
        end == pos + CF_SIZE
        shrink == end < w1.lower.size
        w2 == IF shrink THEN [w1 EXCEPT !.lower.size = end] ELSE w1
        log2 == IF shrink THEN Append(log1, [ev |-> "truncate", size |-> end])
                ELSE log1
    IN  IF io.fail = "footer"
        THEN [w |-> free_out(make_meta_invalid(w)), ret |-> "EIO", log |-> log]
        ELSE IF shrink /\ io.fail = "trunc"
        THEN [w |-> free_out(make_meta_invalid(w2)), ret |-> "EIO", log |-> log2]
        ELSE [w |-> free_out(IF fsz > CF_SIZE THEN make_meta_invalid(w2)
                             ELSE [w2 EXCEPT !.sii.compressable = FALSE]),
              ret |-> "OK", log |-> log2]

\* Lines 847-849: the compressed form is kept when the length scfs_compress
\* reported is below the threshold share of the staged bytes (C integer division).
keep_compressed(clen, staged, thr) == clen < (staged * thr) \div 100

\* Lines 873-878: r is what scfs_write_cinfo returned.
meta_index_written(r, io, log) ==
    IF r.ret # "OK"
    THEN [w |-> free_out(r.w), ret |-> r.ret, log |-> log \o r.log]
    ELSE write_footer(r.w, r.pos, r.n, io, log \o r.log)

\* Lines 871-878 and on: the index (when the file used compression) and the footer.
meta_index(w, io, log) ==
    IF w.sii.compressed
    THEN meta_index_written(
           scfs_write_cinfo(w, ALIGN(Last(w.sii.cinfo_list).offset
                                     + Last(w.sii.cinfo_list).size,
                                     SCFS_CLUSTER_ALIGN_BYTE), io),
           io, log)
    ELSE write_footer(w, ALIGN(Last(w.sii.cinfo_list).offset
                               + Last(w.sii.cinfo_list).size,
                               SCFS_CLUSTER_ALIGN_BYTE), 0, io, log)

\* Lines 831-870: the staged last cluster is compressed and written.
meta_last_cluster(w, io, log) ==
    LET n == Len(w.sii.cinfo_list)
        last == w.sii.cinfo_list[n]
        staged == w.sii.original_size
        c == scfs_compress(w.sii.comp_type, staged, last.size, io.comp)
        wc == [w EXCEPT !.sii.cinfo_list[n].size = c.actual]
        pad == ALIGN(c.actual, SCFS_CLUSTER_ALIGN_BYTE) - c.actual
        keep == keep_compressed(c.actual, staged, w.sbi.comp_threshold)
        size == IF keep THEN c.actual ELSE staged
        w2 == [wc EXCEPT !.sii.cinfo_list[n].pad = pad,
                         !.sii.cinfo_list[n].size = size,
                         !.sii.compressed = IF keep THEN TRUE ELSE @]
        w3 == [w2 EXCEPT !.lower = lower_written(@, last.offset, size + pad,
                                                 "cluster", << >>),
                         !.sbi.current_data_size = @ - staged,
                         !.sii.original_size = 0]
        ev == [ev |-> "write", kind |-> "cluster", pos |-> last.offset,
               len |-> size + pad, size |-> size, pad |-> pad,
               source |-> IF keep THEN "c_buffer" ELSE "u_buffer",
               clen |-> c.actual, produced |-> io.comp.produced,
               staged |-> staged, idx |-> last.idx,
               was_compressed |-> w.sii.compressed,
               now_compressed |-> w2.sii.compressed]
    IN  IF c.ret # "OK"
        THEN [w |-> free_out(wc), ret |-> c.ret,
              log |-> Append(log, [ev |-> "compress_failed", staged |-> staged])]
        ELSE IF io.fail = "cluster"
        THEN [w |-> free_out(make_meta_invalid(w2)), ret |-> "EIO", log |-> log]
        ELSE meta_index(w3, io, Append(log, ev))

\* Lines 879-886: a file that is not compressible drops its fake cluster_info.
meta_plain(w, io, log) ==
    write_footer([w EXCEPT !.sii.cinfo_list = Front(@),
                           !.sbi.total_cluster_count = @ - 1],
                 w.sii.i_size, 0, io, log)

\* scfs_write_meta(sii): returns [w, ret, log].  ret = "HANG": the caller blocks
\* in mutex_lock(&sii->cinfo_list_mutex), which an earlier call never released.
scfs_write_meta(w, io) ==
    LET log == << Ev("meta") >>
    IN  IF w.sii.cinfo_list_mutex # 0
        THEN [w |-> w, ret |-> "HANG", log |-> log]
        ELSE IF w.sii.cinfo_list = << >>
        THEN [w |-> buf_free_out(w), ret |-> "OK", log |-> log]
        ELSE IF w.sii.compressable
        THEN IF w.sii.original_size > 0
             THEN meta_last_cluster(w, io, log)
             ELSE meta_index(w, io, log)
        ELSE meta_plain(w, io, log)

\* ------------------------------------------------------------ session, whole calls
scfs_initialize_lower_file(w, open_ok) ==
    IF open_ok
    THEN [w |-> [w EXCEPT !.sii.lower_file = "open"], ret |-> "OK",
          log |-> << Ev("open") >>]
    ELSE [w |-> [w EXCEPT !.sii.lower_file = "NULL"], ret |-> "EACCES",
          log |-> << >>]

\* Lines 359-361: the first reference opens the lower file (r is what
\* scfs_initialize_lower_file returned); a failure resets the count.
get_first(r) ==
    IF r.ret # "OK"
    THEN [w |-> [r.w EXCEPT !.sii.lower_file_count = 0], ret |-> r.ret, log |-> r.log]
    ELSE r

\* Lines 354-358, w being the state after atomic_inc_return.
get_counted(w, open_ok) ==
    IF w.sii.lower_file_count < 1 THEN [w |-> w, ret |-> "EINVAL", log |-> << >>]
    ELSE IF w.sii.lower_file_count = 1
    THEN get_first(scfs_initialize_lower_file(w, open_ok))
    ELSE [w |-> w, ret |-> "OK", log |-> << >>]

\* scfs_get_lower_file run without interruption.
scfs_get_lower_file(w, open_ok) ==
    get_counted([w EXCEPT !.sii.lower_file_count = @ + 1], open_ok)

\* atomic_dec_and_mutex_lock(&cnt, &lock): the count is decremented; only a
\* decrement from 1 takes the lock and reports that 0 was hit.
atomic_dec_and_mutex_lock(count) ==
    IF count # 1 THEN [count |-> count - 1, hit |-> FALSE]
    ELSE [count |-> 0, hit |-> TRUE]

\* Lines 377-385, m being what scfs_write_meta returned: the handle is put and
\* cleared whatever the commit returned.  A commit that blocks never returns.
put_last(m) ==
    IF m.ret = "HANG"
    THEN [w |-> [m.w EXCEPT !.sii.lower_file_mutex = 1], ret |-> "HANG",
          log |-> << Ev("flush") >> \o m.log]
    ELSE [w |-> [m.w EXCEPT !.sii.lower_file = "NULL"], ret |-> m.ret,
          log |-> << Ev("flush") >> \o m.log \o << Ev("fput"), Ev("clear") >>]

\* scfs_put_lower_file run without interruption.  ret is what scfs_write_meta
\* returned (the function itself returns nothing).
scfs_put_lower_file(w, io) ==
    LET d == atomic_dec_and_mutex_lock(w.sii.lower_file_count)
    IN  IF ~d.hit
        THEN [w |-> [w EXCEPT !.sii.lower_file_count = d.count], ret |-> "OK",
              log |-> << >>]
        ELSE put_last(scfs_write_meta([w EXCEPT !.sii.lower_file_count = d.count], io))

\* ------------------------------------------------------------ cluster index
\* CLUSTER_COUNT(sii): the clusters of a file of the upper file's size.
CLUSTER_COUNT(s) == (s.i_size + ClusterSize - 1) \div ClusterSize

NoTarget == [offset |-> -2, size |-> -2]

\* scfs_footer_read: the fixed footer is read from the tail of the lower file
\* and validated; the inode takes the file size and the index size from it.
scfs_footer_read(w, io) ==
    LET l == w.lower
        present == l.fpos >= 0 /\ l.fpos + CF_SIZE = l.size
        valid == present /\ l.footer.magic
                 /\ l.footer.footer_size >= CF_SIZE
                 /\ l.footer.footer_size <= l.size
    IN  IF io.read = "footer" THEN [w |-> w, ret |-> "EIO"]
        ELSE IF ~valid THEN [w |-> w, ret |-> "EINVAL"]
        ELSE [w |-> [w EXCEPT !.sii.cinfo_array_size = l.footer.footer_size - CF_SIZE,
                              !.sii.i_size = l.footer.original_file_size,
                              !.sii.upper_file_size = l.footer.original_file_size,
                              !.sii.comp_type = l.footer.comp_type],
              ret |-> "OK"]

\* What scfs_lower_read returns for the size bytes before the fixed footer.
IndexRead(l, size) ==
    LET pos == l.size - size - CF_SIZE
    IN  IF l.ipos = pos /\ Len(l.index) * CinfoSize = size THEN l.index
        ELSE [i \in 1 .. (size \div CinfoSize) |-> GarbageDesc]

\* A failing reload that clears the flag all the same.
reload_failed_clears(w) == clear_meta_invalid(w)

\* Lines 113-116 and 122-123: a reload that fails after the footer was read
\* goes to out: the meta-invalid flag is not touched.
reload_failed(w) == w

\* Lines 127-128: the new array is installed and the flag is cleared.
reload_done(w, buf, st) ==
    clear_meta_invalid([w EXCEPT !.sii.cinfo_array = buf,
                                 !.sii.cinfo_array_st = st])

\* Lines 131-133: scfs_put_lower_file and the return; p is what the put gave,
\* ret what the reload returns.
reload_out(p, ret, log) ==
    [w |-> p.w, ret |-> IF p.ret = "HANG" THEN "HANG" ELSE ret, log |-> log \o p.log]

\* Lines 111-128: the array for the index is allocated and read.
reload_array(w, io) ==
    IF w.sii.cinfo_array_size # 0 /\ io.nomem
    THEN [w |-> reload_failed(w), ret |-> "ENOMEM"]
    ELSE IF w.sii.cinfo_array_size # 0 /\ io.read = "index"
    THEN [w |-> reload_failed(w), ret |-> "EIO"]
    ELSE IF w.sii.cinfo_array_size # 0
    THEN [w |-> reload_done(w, IndexRead(w.lower, w.sii.cinfo_array_size), "valid"),
          ret |-> "OK"]
    ELSE [w |-> reload_done(w, << >>, "NULL"), ret |-> "OK"]

\* Lines 111-133, b being the outcome of reload_array.
reload_put(b, io, log) == reload_out(scfs_put_lower_file(b.w, io), b.ret, log)

\* Lines 106-109: the old array is freed; the pointer keeps its value.
reload_free(w, io, log) ==
    reload_put(
      reload_array(IF w.sii.cinfo_array_st # "NULL"
                   THEN [w EXCEPT !.sii.cinfo_array_st = "freed"] ELSE w, io),
      io,
      IF w.sii.cinfo_array_st # "NULL"
      THEN Append(log, [ev |-> "cinfo_free", was |-> w.sii.cinfo_array_st])
      ELSE log)

\* Lines 99-104: g is what scfs_get_lower_file returned.
reload_got(g, io) ==
    IF g.ret # "OK"
    THEN [w |-> g.w, ret |-> g.ret, log |-> << Ev("reload") >> \o g.log]
    ELSE reload_free(g.w, io, << Ev("reload") >> \o g.log)

\* Lines 91-97: f is what scfs_footer_read returned.
reload_read(f, io) ==
    IF f.ret # "OK"
    THEN [w |-> f.w, ret |-> f.ret, log |-> << Ev("reload") >>]
    ELSE reload_got(scfs_get_lower_file(f.w, io.open_ok), io)

\* scfs_reload_meta(file): returns [w, ret, log].
scfs_reload_meta(w, io) == reload_read(scfs_footer_read(w, io), io)

\* The range check off by one: the index equal to the count passes.
out_of_range_off_by_one(s, cluster_idx) == cluster_idx > CLUSTER_COUNT(s)

\* Line 174: the request is beyond the clusters of the file.
out_of_range(s, cluster_idx) == cluster_idx + 1 > CLUSTER_COUNT(s)

\* Lines 190-203: the scan of the pending list.  held: the function returns
\* with cinfo_list_mutex still locked.
RECURSIVE scan_cinfo_list(_, _)
scan_cinfo_list(list, cluster_idx) ==
    IF list = << >>
    THEN [ret |-> "EIO", target |-> NoTarget, held |-> FALSE]
    ELSE IF Head(list).idx < cluster_idx
    THEN [ret |-> "EINVAL", target |-> NoTarget, held |-> TRUE]
    ELSE IF Head(list).idx = cluster_idx
    THEN [ret |-> "OK", target |-> Desc(Head(list)), held |-> FALSE]
    ELSE scan_cinfo_list(Tail(list), cluster_idx)

\* Lines 181-209: the lookup in the committed array or in the pending list.
\* Reading through a freed cinfo_array is undefined: io.stale tells whether
\* the old bytes are still there.
lookup_cinfo(w, cluster_idx, io) ==
    LET s == w.sii
        sc == scan_cinfo_list(s.cinfo_list, cluster_idx)
    IN  IF cluster_idx * CinfoSize < s.cinfo_array_size
        THEN IF s.cinfo_array_st = "NULL"
             THEN [w |-> w, ret |-> "OOPS", target |-> NoTarget, log |-> << >>]
             ELSE IF s.cinfo_array_st = "valid" \/ io.stale
             THEN [w |-> w, ret |-> "OK",
                   target |-> IF cluster_idx + 1 <= Len(s.cinfo_array)
                              THEN s.cinfo_array[cluster_idx + 1] ELSE GarbageDesc,
                   log |-> << >>]
             ELSE [w |-> w, ret |-> "OK", target |-> GarbageDesc, log |-> << >>]
        ELSE IF s.cinfo_list_mutex # 0
        THEN [w |-> w, ret |-> "HANG", target |-> NoTarget, log |-> << >>]
        ELSE IF s.cinfo_list = << >>
        THEN [w |-> [w EXCEPT !.sii.cinfo_list_mutex = 1], ret |-> "EINVAL",
              target |-> NoTarget, log |-> << >>]
        ELSE [w |-> IF sc.held THEN [w EXCEPT !.sii.cinfo_list_mutex = 1] ELSE w,
              ret |-> sc.ret, target |-> sc.target, log |-> << >>]

\* Lines 174-214, r being what the reload (if any) returned.
resolve_loaded(r, cluster_idx, io) ==
    IF r.ret # "OK"
    THEN [w |-> r.w, ret |-> r.ret, target |-> NoTarget, log |-> r.log]
    ELSE IF out_of_range(r.w.sii, cluster_idx)
    THEN [w |-> r.w, ret |-> "EINVAL", target |-> NoTarget,
          log |-> Append(r.log, Ev("range"))]
    ELSE [lookup_cinfo(r.w, cluster_idx, io) EXCEPT
             !.log = Append(r.log, Ev("lookup"))]

\* get_cluster_info(file, cluster_idx, target): returns [w, ret, target, log].
get_cluster_info(w, cluster_idx, io) ==
    resolve_loaded(IF w.sii.invalid_meta THEN scfs_reload_meta(w, io)
                   ELSE [w |-> w, ret |-> "OK", log |-> << >>],
                   cluster_idx, io)

\* ------------------------------------------------------------ write path
\* Bytes one write call appends, and the lengths the codec may produce.
WriteSizes == {ClusterSize \div 2, ClusterSize}

Produced == {1, ClusterSize \div 2, ClusterSize + 1}

\* scfs_alloc_cinfo_entry(cluster_index, sii): a zeroed entry at the list tail.
scfs_alloc_cinfo_entry(w, cluster_index) ==
    [w EXCEPT !.sii.cinfo_list =
                  Append(@, [idx |-> cluster_index, offset |-> 0, size |-> 0,
                             pad |-> 0]),
              !.sbi.total_cluster_count = @ + 1]

\* Where the cluster after the last known one starts in the lower file.
next_offset(s, idx) ==
    IF s.cinfo_list # << >>
    THEN Last(s.cinfo_list).offset + Last(s.cinfo_list).size + Last(s.cinfo_list).pad
    ELSE IF idx = 0 THEN 0
    ELSE ALIGN(s.cinfo_array[idx].offset + s.cinfo_array[idx].size,
               SCFS_CLUSTER_ALIGN_BYTE)

\* Finalization of a full cluster (compress, pad, threshold, write, reset).
\* A codec error falls back to the raw bytes.
finalize_cluster(w, io) ==
    LET n == Len(w.sii.cinfo_list)
        last == w.sii.cinfo_list[n]
        staged == w.sii.original_size
        c == scfs_compress(w.sii.comp_type, staged, ClusterSize, io.comp)
        keep == c.ret = "OK" /\ keep_compressed(c.actual, staged, w.sbi.comp_threshold)
        size == IF keep THEN c.actual ELSE staged
        pad == IF c.ret = "OK"
               THEN ALIGN(c.actual, SCFS_CLUSTER_ALIGN_BYTE) - c.actual
               ELSE ALIGN(staged, SCFS_CLUSTER_ALIGN_BYTE) - staged
    IN  [w EXCEPT !.sii.cinfo_list[n].size = size,
                  !.sii.cinfo_list[n].pad = pad,
                  !.sii.compressed = IF keep THEN TRUE ELSE @,
                  !.sii.original_size = 0,
                  !.sbi.current_data_size = @ - staged,
                  !.lower = lower_written(@, last.offset, size + pad, "cluster", << >>)]

\* write_bytes on a compressible file: n bytes are appended to the staged last
\* cluster; a new cluster gets its entry when its first bytes arrive.
write_compressable(w, n, io) ==
    LET s == w.sii
        idx == s.i_size \div ClusterSize
        wb == scfs_alloc_cinfo_entry(scfs_get_comp_buffer(w), idx)
        k == Len(wb.sii.cinfo_list)
        wa == IF s.original_size = 0
              THEN [wb EXCEPT !.sii.cinfo_list[k].offset = next_offset(s, idx),
                              !.sii.cinfo_list[k].size = ClusterSize]
              ELSE w
        ws == [wa EXCEPT !.sii.original_size = @ + n,
                         !.sii.i_size = @ + n,
                         !.sii.upper_file_size = @ + n,
                         !.sbi.current_data_size = @ + n]
    IN  IF ws.sii.original_size < ClusterSize THEN ws ELSE finalize_cluster(ws, io)

\* write_bytes on a file that is not compressible: the bytes go to the lower
\* file as they are; one fake cluster_info marks the file as written.
write_plain(w, n) ==
    LET wa == IF w.sii.cinfo_list = << >> THEN scfs_alloc_cinfo_entry(w, 0) ELSE w
    IN  [wa EXCEPT !.sii.i_size = @ + n,
                   !.sii.upper_file_size = @ + n,
                   !.lower = lower_written(@, w.sii.i_size, n, "cluster", << >>)]

write_bytes(w, n, io) ==
    [w |-> IF w.sii.compressable THEN write_compressable(w, n, io)
           ELSE write_plain(w, n),
     ret |-> "OK", log |-> << >>]

\* The write path can run: the file is open, its metadata is loaded, the index
\* lock is free, and the bytes continue the staged cluster or start a new one.
can_write(s, n) ==
    /\ s.lower_file = "open"
    /\ s.cinfo_list_mutex = 0
    /\ s.i_size + n <= MaxClusters * ClusterSize
    /\ s.compressable =>
         /\ ~s.invalid_meta
         /\ s.original_size + n <= ClusterSize
         /\ s.original_size = (s.i_size % ClusterSize)
         /\ s.original_size > 0 =>
               /\ s.cinfo_list # << >>
               /\ Last(s.cinfo_list).idx = s.i_size \div ClusterSize
         /\ (s.original_size = 0 /\ s.cinfo_list = << >> /\ s.i_size > 0) =>
               /\ s.cinfo_array_st = "valid"
               /\ Len(s.cinfo_array) = s.i_size \div ClusterSize

\* ------------------------------------------------------------ truncate
\* scfs_initialize_file(dentry, inode), called at line 1116: it sets up the
\* empty index and footer state of the file, or fails.
scfs_initialize_file(w, ok) == [w |-> w, ret |-> IF ok THEN "OK" ELSE "EIO"]

\* A truncate that leaves the pending entries on the list.
truncate_discard_keeps_list(w) == [w EXCEPT !.sii.i_size = 0]

\* Lines 1096-1108: the upper size is set to 0, then the pending list is
\* emptied under cinfo_list_mutex; the entries are freed, nothing is written.
truncate_discard(w) ==
    [w EXCEPT !.sii.i_size = 0, !.sii.cinfo_list = << >>]

\* Lines 1110-1112: notify_change with ATTR_SIZE 0 on the lower dentry.
truncate_lower(w) == [w EXCEPT !.lower = InitLower]

\* A reset that leaves the meta-invalid flag as it was.
truncate_reset_keeps_flag(w) ==
    [w EXCEPT !.sii.cinfo_array = << >>,
              !.sii.cinfo_array_st = "NULL",
              !.sii.cinfo_array_size = 0,
              !.sii.upper_file_size = 0,
              !.sii.original_size = 0]

\* Lines 1123-1130: the committed array is freed and the sizes are reset; the
\* meta-invalid flag is cleared.
truncate_reset(w) ==
    clear_meta_invalid([w EXCEPT !.sii.cinfo_array = << >>,
                                 !.sii.cinfo_array_st = "NULL",
                                 !.sii.cinfo_array_size = 0,
                                 !.sii.upper_file_size = 0,
                                 !.sii.original_size = 0])

\* Lines 1110-1132, wd being the world after the list was discarded.
truncate_resize(wd, io, log) ==
    IF ~io.notify_ok
    THEN [w |-> wd, ret |-> "EIO", log |-> log]
    ELSE IF scfs_initialize_file(truncate_lower(wd), io.init_ok).ret # "OK"
    THEN [w |-> make_meta_invalid(truncate_lower(wd)), ret |-> "EIO",
          log |-> Append(log, Ev("notify_change"))]
    ELSE [w |-> truncate_reset(truncate_lower(wd)), ret |-> "OK",
          log |-> log \o << Ev("notify_change"),
                            [ev |-> "cinfo_free", was |-> wd.sii.cinfo_array_st] >>]

\* scfs_truncate(dentry, size): returns [w, ret, log].
scfs_truncate(w, size, io) ==
    IF size # 0
    THEN [w |-> w, ret |-> "EINVAL", log |-> << >>]
    ELSE IF w.sii.cinfo_list_mutex # 0
    THEN [w |-> [w EXCEPT !.sii.i_size = 0], ret |-> "HANG",
          log |-> << Ev("setsize") >>]
    ELSE truncate_resize(truncate_discard(w), io,
                         << Ev("setsize"),
                            [ev |-> "discard", entries |-> Len(w.sii.cinfo_list)] >>)

\* ------------------------------------------------------------ outcomes of the lower layer
CompOutcomes ==
    {[nomem |-> FALSE, fail |-> FALSE, produced |-> p] : p \in Produced}
    \cup {[nomem |-> TRUE, fail |-> FALSE, produced |-> 1],
          [nomem |-> FALSE, fail |-> TRUE, produced |-> 1]}

WriteFails == {"none", "cluster", "array", "batch1", "batch2", "footer", "trunc"}

ReadFails == {"none", "footer", "index"}

QuietIO == [comp |-> [nomem |-> FALSE, fail |-> FALSE, produced |-> 1],
            fail |-> "none", open_ok |-> TRUE, read |-> "none",
            nomem |-> FALSE, stale |-> FALSE]

\* The outcomes a commit can meet in state s: what the codec does matters when
\* a staged cluster is compressed; one lower write at most fails.
CommitIO(s) ==
    {[QuietIO EXCEPT !.comp = c, !.fail = f] :
        c \in (IF s.compressable /\ s.original_size > 0 /\ s.cinfo_list # << >>
               THEN CompOutcomes ELSE {QuietIO.comp}),
        f \in (IF s.cinfo_list # << >> THEN WriteFails ELSE {"none"})}

\* The outcomes a reload can meet: at most one of its steps fails.
ReloadIO ==
    {QuietIO, [QuietIO EXCEPT !.read = "footer"], [QuietIO EXCEPT !.read = "index"],
     [QuietIO EXCEPT !.nomem = TRUE], [QuietIO EXCEPT !.open_ok = FALSE]}

WriteIO == {[QuietIO EXCEPT !.comp = c] : c \in CompOutcomes}

StaleIO == {[QuietIO EXCEPT !.stale = u] : u \in BOOLEAN}

\* The outcomes a truncate can meet: notify_change or scfs_initialize_file fails.
TruncIO == {[notify_ok |-> n, init_ok |-> i] : n, i \in BOOLEAN}

\* ------------------------------------------------------------ whole calls of one caller
\* A call that blocks for ever (HANG) or crashes (OOPS) ends the caller.
Live == res.ret \notin {"HANG", "OOPS"}

SetWorld(w) == sii' = w.sii /\ sbi' = w.sbi /\ lower' = w.lower

Result(op, arg, r, target) ==
    [op |-> op, arg |-> arg, ret |-> r.ret, target |-> target, log |-> r.log,
     pre_invalid |-> sii.invalid_meta, pre_count |-> sii.lower_file_count,
     pre_clusters |-> CLUSTER_COUNT(sii)]

NoResult == [op |-> "none", arg |-> 0, ret |-> "OK", target |-> NoTarget,
             log |-> << >>, pre_invalid |-> FALSE, pre_count |-> 0,
             pre_clusters |-> 0]

Caller == CHOOSE t \in Threads : \A u \in Threads : t <= u

\* open of the upper file: scfs_get_lower_file.
Open ==
    /\ Live
    /\ loc[Caller].held = 0
    /\ sii.lower_file_mutex = 0
    /\ \E ok \in BOOLEAN :
         LET r == scfs_get_lower_file(World, ok)
         IN  /\ SetWorld(r.w)
             /\ res' = Result("get", 0, r, NoTarget)
             /\ loc' = [loc EXCEPT ![Caller].held = IF r.ret = "OK" THEN @ + 1 ELSE @]
    /\ UNCHANGED <<pc, hist>>

\* The index as it is before a commit: the committed descriptors before the
\* first pending index, then the pending descriptors in order.
PendingIndex(s) ==
    IF s.cinfo_list = << >> THEN << >>
    ELSE [i \in 1 .. Head(s.cinfo_list).idx |->
             IF i <= Len(s.cinfo_array) THEN s.cinfo_array[i] ELSE GarbageDesc]
         \o [j \in 1 .. Len(s.cinfo_list) |-> Desc(s.cinfo_list[j])]

\* release of the upper file: scfs_put_lower_file (all but the history).
CloseCall ==
    /\ Live
    /\ loc[Caller].held > 0
    /\ sii.lower_file_mutex = 0
    /\ \E io \in (IF sii.lower_file_count = 1 THEN CommitIO(sii) ELSE {QuietIO}) :
         LET r == scfs_put_lower_file(World, io)
         IN  /\ SetWorld(r.w)
             /\ res' = Result("put", 0, r, NoTarget)
    /\ loc' = [loc EXCEPT ![Caller].held = @ - 1]
    /\ UNCHANGED pc

Close == CloseCall /\ UNCHANGED hist

\* write_bytes of n bytes at the end of the file.
WriteBytes ==
    /\ Live
    /\ loc[Caller].held > 0
    /\ sbi.total_cluster_count < MaxCounted
    /\ \E n \in WriteSizes :
       \E io \in (IF sii.compressable /\ sii.original_size + n = ClusterSize
                  THEN WriteIO ELSE {QuietIO}) :
         /\ can_write(sii, n)
         /\ LET r == write_bytes(World, n, io)
            IN  /\ SetWorld(r.w)
                /\ res' = Result("write", n, r, NoTarget)
    /\ UNCHANGED <<pc, loc, hist>>

\* resolve: get_cluster_info for one cluster index.
Resolve ==
    /\ Live
    /\ loc[Caller].held > 0
    /\ sii.compressable
    /\ sii.lower_file_mutex = 0
    /\ \E c \in 0 .. MaxClusters :
       \E io \in (IF sii.invalid_meta THEN ReloadIO
                  ELSE IF sii.cinfo_array_st = "freed" THEN StaleIO ELSE {QuietIO}) :
         LET r == get_cluster_info(World, c, io)
         IN  /\ SetWorld(r.w)
             /\ res' = Result("resolve", c, r, r.target)
    /\ UNCHANGED <<pc, loc, hist>>

\* The footer of the closed lower file is damaged from outside.
CorruptFooter ==
    /\ Live
    /\ sii.lower_file_count = 0
    /\ lower.fpos >= 0 /\ lower.footer.magic
    /\ lower' = [lower EXCEPT !.footer.magic = FALSE]
    /\ res' = NoResult
    /\ UNCHANGED <<sii, sbi, pc, loc, hist>>

InitLoc == [t \in Threads |-> [held |-> 0, count |-> 0, ret |-> "OK", hit |-> FALSE]]

InitHist == [acquired |-> FALSE, peak |-> 0, metas |-> 0, footers |-> 0,
             opens |-> 0, closes |-> 0, open_handles |-> 0, writes |-> 0,
             truncated |-> FALSE, leftover |-> FALSE,
             indexed |-> FALSE, index |-> << >>, staged_last |-> FALSE,
             commit_pending |-> FALSE, commit_ret |-> "OK"]

Init ==
    /\ \E ct \in CompTypes : sii = InitSii(ct, TRUE)
    /\ \E thr \in Thresholds : sbi = InitSbi(thr)
    /\ lower = InitLower
    /\ pc = [t \in Threads |-> "idle"]
    /\ loc = InitLoc
    /\ res = NoResult
    /\ hist = InitHist

Next == Open \/ Close \/ WriteBytes \/ Resolve \/ CorruptFooter

Spec == Init /\ [][Next]_vars


\* ------------------------------------------------------------ commits remembered
\* A release that remembers, in hist, the index the commit started from: valid
\* (indexed) from a commit that succeeded and wrote index records up to the
\* next commit that fails or writes a footer.
CloseRecorded ==
    /\ CloseCall
    /\ hist' = IF res'.ret = "OK" /\ CountWrites(res'.log, "cinfo") > 0
               THEN [hist EXCEPT !.indexed = TRUE,
                                 !.index = PendingIndex(sii),
                                 !.staged_last = sii.original_size > 0]
               ELSE IF res'.ret = "OK" /\ CountWrites(res'.log, "footer") = 0
               THEN hist
               ELSE [hist EXCEPT !.indexed = FALSE, !.index = << >>,
                                 !.staged_last = FALSE]

NextRoundTrip == Open \/ CloseRecorded \/ WriteBytes \/ Resolve \/ CorruptFooter

SpecRoundTrip == Init /\ [][NextRoundTrip]_vars

\* ------------------------------------------------------------ truncate among the calls
\* truncate of the upper file to size bytes: scfs_truncate.  A behaviour
\* truncates the file to zero once; a refused (nonzero) truncate does not count.
Truncate ==
    /\ Live
    /\ ~hist.truncated
    /\ \E size \in {0, ClusterSize} :
       \E io \in (IF size = 0 /\ sii.cinfo_list_mutex = 0 THEN TruncIO
                  ELSE {[notify_ok |-> TRUE, init_ok |-> TRUE]}) :
         LET r == scfs_truncate(World, size, io)
         IN  /\ SetWorld(r.w)
             /\ res' = Result("truncate", size, r, NoTarget)
             /\ hist' = [hist EXCEPT
                           !.truncated = (size = 0),
                           !.leftover = size = 0 /\ sii.cinfo_list # << >>
                                        /\ sii.cinfo_array_st = "valid"]
    /\ UNCHANGED <<pc, loc>>

\* The last call was a truncate that failed after it had started: the state it
\* left is where the behaviour ends.
TruncateFailed == res.op = "truncate" /\ res.ret \notin {"OK", "EINVAL"}

NextTruncate ==
    \/ ~TruncateFailed /\ Open
    \/ ~TruncateFailed /\ Close
    \/ ~TruncateFailed /\ WriteBytes
    \/ ~TruncateFailed /\ Resolve
    \/ ~TruncateFailed /\ CorruptFooter
    \/ Truncate

SpecTruncate == Init /\ [][NextTruncate]_vars

\* ------------------------------------------------------------ misuse: a release too many
\* scfs_put_lower_file by a caller that holds no reference.
ExtraClose ==
    /\ Live
    /\ loc[Caller].held = 0
    /\ sii.lower_file_mutex = 0
    /\ sii.lower_file_count > -MaxExtraPut
    /\ \E io \in (IF sii.lower_file_count = 1 THEN CommitIO(sii) ELSE {QuietIO}) :
         LET r == scfs_put_lower_file(World, io)
         IN  /\ SetWorld(r.w)
             /\ res' = Result("put", 0, r, NoTarget)
    /\ UNCHANGED <<pc, loc, hist>>

NextMisuse == Next \/ ExtraClose

SpecMisuse == Init /\ [][NextMisuse]_vars

\* ------------------------------------------------------------ session, step by step
\* Threads run scfs_get_lower_file and scfs_put_lower_file one statement at a
\* time; each releases only a reference it holds.

\* A mutex that can always be taken.
may_lock_always(m) == TRUE

\* mutex_lock(&sii->lower_file_mutex) returns only when the mutex is free.
may_lock(m) == m = 0

\* A locked decrement that always reports the last reference.
dec_hits_zero_always(count) == TRUE

\* atomic_dec_and_test inside atomic_dec_and_mutex_lock: 0 was hit.
dec_hits_zero(count) == count - 1 = 0

\* The locals of a call are gone when it returns; held is what the caller keeps.
Returned(held) == [held |-> held, count |-> 0, ret |-> "OK", hit |-> FALSE]

Holders == Cardinality({t \in Threads : loc[t].held > 0})

Quiescent == \A t \in Threads : pc[t] = "idle" /\ loc[t].held = 0

\* The history of one session: counted from the acquire that starts it.
RoundHist == [InitHist EXCEPT !.writes = hist.writes]

\* Line 353: mutex_lock.
GetLock(t) ==
    /\ pc[t] = "idle" /\ loc[t].held = 0
    /\ may_lock(sii.lower_file_mutex)
    /\ sii' = [sii EXCEPT !.lower_file_mutex = 1]
    /\ pc' = [pc EXCEPT ![t] = "get_inc"]
    /\ hist' = IF Quiescent /\ sii.lower_file_count = 0 THEN RoundHist ELSE hist
    /\ UNCHANGED <<sbi, lower, loc, res>>

\* Lines 354-358: atomic_inc_return and the branch on the count.
GetInc(t) ==
    /\ pc[t] = "get_inc"
    /\ LET count == sii.lower_file_count + 1
       IN  /\ sii' = [sii EXCEPT !.lower_file_count = count]
           /\ loc' = [loc EXCEPT ![t].count = count,
                                 ![t].ret = IF count < 1 THEN "EINVAL" ELSE "OK"]
           /\ pc' = [pc EXCEPT ![t] = IF count = 1 THEN "get_open" ELSE "get_unlock"]
    /\ UNCHANGED <<sbi, lower, res, hist>>

\* Lines 359-361: scfs_initialize_lower_file; a failure resets the count.
GetOpen(t) ==
    /\ pc[t] = "get_open"
    /\ \E ok \in BOOLEAN :
         LET r == scfs_initialize_lower_file(World, ok)
         IN  /\ sii' = IF r.ret # "OK"
                       THEN [r.w.sii EXCEPT !.lower_file_count = 0]
                       ELSE r.w.sii
             /\ loc' = [loc EXCEPT ![t].ret = r.ret]
             /\ hist' = IF r.ret = "OK"
                        THEN [hist EXCEPT !.opens = @ + 1, !.open_handles = @ + 1]
                        ELSE hist
    /\ pc' = [pc EXCEPT ![t] = "get_unlock"]
    /\ UNCHANGED <<sbi, lower, res>>

\* Lines 363-365: mutex_unlock and return.
GetUnlock(t) ==
    /\ pc[t] = "get_unlock"
    /\ sii' = [sii EXCEPT !.lower_file_mutex = 0]
    /\ pc' = [pc EXCEPT ![t] = "idle"]
    /\ loc' = [loc EXCEPT ![t] = Returned(IF loc[t].ret = "OK" THEN @.held + 1
                                           ELSE @.held)]
    /\ hist' = IF loc[t].ret = "OK"
               THEN [hist EXCEPT !.acquired = TRUE,
                                 !.peak = Max(@, Holders + 1)]
               ELSE hist
    /\ UNCHANGED <<sbi, lower, res>>

\* Line 375, atomic_dec_and_mutex_lock, first half: atomic_add_unless(cnt, -1, 1)
\* decrements without the mutex unless the count is 1.
PutDec(t) ==
    /\ pc[t] = "idle" /\ loc[t].held > 0
    /\ loc' = [loc EXCEPT ![t] = Returned(@.held - 1)]
    /\ IF sii.lower_file_count # 1
       THEN /\ sii' = [sii EXCEPT !.lower_file_count = @ - 1]
            /\ pc' = pc
       ELSE /\ pc' = [pc EXCEPT ![t] = "put_lock"]
            /\ sii' = sii
    /\ UNCHANGED <<sbi, lower, res, hist>>

\* Line 375, second half: mutex_lock.
PutLock(t) ==
    /\ pc[t] = "put_lock"
    /\ may_lock(sii.lower_file_mutex)
    /\ sii' = [sii EXCEPT !.lower_file_mutex = 1]
    /\ pc' = [pc EXCEPT ![t] = "put_test"]
    /\ UNCHANGED <<sbi, lower, loc, res, hist>>

\* Line 375, last part: atomic_dec_and_test; the mutex is kept only when 0 was hit.
PutTest(t) ==
    /\ pc[t] = "put_test"
    /\ IF dec_hits_zero(sii.lower_file_count)
       THEN /\ sii' = [sii EXCEPT !.lower_file_count = @ - 1]
            /\ loc' = [loc EXCEPT ![t].hit = TRUE]
            /\ pc' = [pc EXCEPT ![t] = "put_flush"]
       ELSE /\ sii' = [sii EXCEPT !.lower_file_count = @ - 1, !.lower_file_mutex = 0]
            /\ loc' = [loc EXCEPT ![t] = Returned(@.held)]
            /\ pc' = [pc EXCEPT ![t] = "idle"]
    /\ UNCHANGED <<sbi, lower, res, hist>>

\* Line 377: filemap_write_and_wait.
PutFlush(t) ==
    /\ pc[t] = "put_flush"
    /\ pc' = [pc EXCEPT ![t] = "put_meta"]
    /\ UNCHANGED <<sii, sbi, lower, loc, res, hist>>

\* Lines 379-381: scfs_write_meta; its error is only printed.
PutMeta(t) ==
    /\ pc[t] = "put_meta"
    /\ sii.cinfo_list_mutex = 0
    /\ \E io \in CommitIO(sii) :
         LET r == scfs_write_meta(World, io)
         IN  /\ SetWorld(r.w)
             /\ loc' = [loc EXCEPT ![t].ret = r.ret, ![t].count = sii.lower_file_count]
             /\ hist' = [hist EXCEPT !.metas = @ + 1,
                                     !.footers = @ + CountWrites(r.log, "footer"),
                                     !.commit_pending = sii.cinfo_list # << >>,
                                     !.commit_ret = r.ret]
    /\ pc' = [pc EXCEPT ![t] = "put_fput"]
    /\ UNCHANGED res

\* Line 383: fput(sii->lower_file).
PutFput(t) ==
    /\ pc[t] = "put_fput"
    /\ hist' = [hist EXCEPT !.closes = @ + 1, !.open_handles = @ - 1]
    /\ pc' = [pc EXCEPT ![t] = "put_clear"]
    /\ UNCHANGED <<sii, sbi, lower, loc, res>>

\* Line 384: sii->lower_file = NULL.
PutClear(t) ==
    /\ pc[t] = "put_clear"
    /\ sii' = [sii EXCEPT !.lower_file = "NULL"]
    /\ pc' = [pc EXCEPT ![t] = "put_unlock"]
    /\ UNCHANGED <<sbi, lower, loc, res, hist>>

\* Line 385: mutex_unlock.
PutUnlock(t) ==
    /\ pc[t] = "put_unlock"
    /\ sii' = [sii EXCEPT !.lower_file_mutex = 0]
    /\ pc' = [pc EXCEPT ![t] = "idle"]
    /\ loc' = [loc EXCEPT ![t] = Returned(@.held)]
    /\ UNCHANGED <<sbi, lower, res, hist>>

\* A holder of a reference appends n bytes.
SessionWrite(t) ==
    /\ pc[t] = "idle" /\ loc[t].held > 0
    /\ hist.writes < MaxSessionWrites
    /\ \E n \in WriteSizes :
       \E io \in (IF sii.compressable /\ sii.original_size + n = ClusterSize
                  THEN WriteIO ELSE {QuietIO}) :
         /\ can_write(sii, n)
         /\ SetWorld(write_bytes(World, n, io).w)
    /\ hist' = [hist EXCEPT !.writes = @ + 1]
    /\ UNCHANGED <<pc, loc, res>>

\* A holder of a reference resolves cluster c.
SessionResolve(t) ==
    /\ pc[t] = "idle" /\ loc[t].held > 0
    /\ sii.compressable
    /\ sii.lower_file_mutex = 0
    /\ \E c \in 0 .. MaxClusters :
       \E io \in (IF sii.invalid_meta THEN ReloadIO ELSE {QuietIO}) :
         LET r == get_cluster_info(World, c, io)
         IN  /\ r.ret \notin {"HANG", "OOPS"}
             /\ SetWorld(r.w)
    /\ UNCHANGED <<pc, loc, res, hist>>

NextSession ==
    \E t \in Threads :
        \/ GetLock(t) \/ GetInc(t) \/ GetOpen(t) \/ GetUnlock(t)
        \/ PutDec(t) \/ PutLock(t) \/ PutTest(t) \/ PutFlush(t) \/ PutMeta(t)
        \/ PutFput(t) \/ PutClear(t) \/ PutUnlock(t)
        \/ SessionWrite(t) \/ SessionResolve(t)

SpecSession == Init /\ [][NextSession]_vars

\* ------------------------------------------------------------ claims, session
RECURSIVE SumOver(_, _)
SumOver(S, f) ==
    IF S = {} THEN 0
    ELSE LET x == CHOOSE y \in S : TRUE IN f[x] + SumOver(S \ {x}, f)

\* The statements of get and put that run with lower_file_mutex held.
Locked == {"get_inc", "get_open", "get_unlock", "put_test", "put_flush",
           "put_meta", "put_fput", "put_clear", "put_unlock"}

\* The references the count stands for: those held, those of a get that has
\* succeeded and not yet returned, and those of a put that has not yet decremented.
Counted ==
    [t \in Threads |->
        loc[t].held
        + (IF pc[t] \in {"get_open", "put_lock", "put_test"}
              \/ (pc[t] = "get_unlock" /\ loc[t].ret = "OK")
           THEN 1 ELSE 0)]

\* Every reference of a session that had one has been released and the
\* releases have returned.
SessionOver == Quiescent /\ hist.acquired

\* C1 as stated: once N >= 1 successful acquires have been matched by N releases,
\* scfs_write_meta has run exactly once and the footer was written exactly once.
C1_FooterOnce ==
    SessionOver => (hist.metas = 1 /\ hist.footers = 1)

\* C1 amended: scfs_write_meta is run only by the release that took the count to
\* 0, and exactly once by the time N >= 1 successful acquires have been matched by
\* N returned releases; the footer is written at most once: never when the pending
\* list is empty at the commit, once when it is not and the commit succeeds.
C1_CommitOnce ==
    /\ \A t \in Threads :
         pc[t] \in {"put_flush", "put_meta"} => (loc[t].hit /\ sii.lower_file_count = 0)
    /\ hist.metas <= 1
    /\ hist.footers <= hist.metas
    /\ hist.metas = 1 =>
         /\ ~hist.commit_pending => hist.footers = 0
         /\ (hist.commit_pending /\ hist.commit_ret = "OK") => hist.footers = 1
    /\ SessionOver => hist.metas = 1

C1_Witness ==
    /\ SessionOver /\ hist.peak = NThreads
    /\ hist.metas = 1 /\ hist.footers = 1

\* C2: a release at count 0 changes nothing, the count is never negative, and an
\* acquire fails only when the lower file cannot be opened.
C2_ExtraReleaseRejected ==
    /\ sii.lower_file_count >= 0
    /\ (res.op = "put" /\ res.pre_count = 0) =>
         (res.log = << >> /\ sii.lower_file_count = 0)
    /\ res.op = "get" => res.ret \in {"OK", "EACCES"}

\* C3: under every interleaving of get and put by threads that release what
\* they hold, the statements under lower_file_mutex are run by one thread at a
\* time, the lower file is opened at most once and closed at most once per
\* session, the count equals the references it stands for, and while a thread
\* holds a reference the lower file is open.
C3_TransitionsAtomic ==
    /\ Cardinality({t \in Threads : pc[t] \in Locked}) <= 1
    /\ hist.opens <= 1 /\ hist.closes <= hist.opens
    /\ hist.open_handles \in {0, 1}
    /\ sii.lower_file_count = SumOver(Threads, Counted)
    /\ \A t \in Threads :
         loc[t].held > 0 => (sii.lower_file = "open" /\ hist.open_handles = 1)

C3_Witness ==
    \E t, u \in Threads :
        /\ t # u
        /\ pc[t] = "put_lock"
        /\ pc[u] = "get_unlock" /\ loc[u].ret = "OK"
        /\ sii.lower_file_count = 2

\* C4: the release of the last reference flushes, commits, puts the handle and
\* clears it, in this order, and leaves the handle cleared and lower_file_mutex
\* free whatever the commit did.
C4_TeardownOrder ==
    (res.op = "put" /\ res.pre_count = 1) =>
        LET n == Len(res.log)
        IN  /\ n >= 4
            /\ res.log[1] = Ev("flush") /\ res.log[2] = Ev("meta")
            /\ res.log[n - 1] = Ev("fput") /\ res.log[n] = Ev("clear")
            /\ \A i \in 3 .. n - 2 :
                 res.log[i].ev \in {"write", "truncate", "compress_failed"}
            /\ sii.lower_file = "NULL"
            /\ sii.lower_file_mutex = 0

\* C5: a failing acquire leaves the count as it was; when the open of the first
\* reference fails the error is the open's, the count is 0 and the handle null.
C5_FailedAcquireRestores ==
    (res.op = "get" /\ res.ret # "OK") =>
        /\ sii.lower_file_count = res.pre_count
        /\ res.pre_count = 0 =>
             (res.ret = "EACCES" /\ sii.lower_file_count = 0 /\ sii.lower_file = "NULL")

\* ------------------------------------------------------------ claims, cluster index
HasEv(log, name) == \E i \in 1 .. Len(log) : log[i].ev = name

CommittedLen(s) == s.cinfo_array_size \div CinfoSize

\* The pending indices are strictly increasing and contiguous from committed.len.
PendingWellFormed(s) ==
    \A i \in 1 .. Len(s.cinfo_list) : s.cinfo_list[i].idx = CommittedLen(s) + i - 1

\* C6: with a well-formed pending list, resolve(c) for every c from committed.len
\* up to the last pending index returns the descriptor of the pending entry whose
\* index is c, whatever its position in the list.
C6_PendingResolved ==
    (/\ res.op = "resolve"
     /\ HasEv(res.log, "lookup")
     /\ PendingWellFormed(sii)
     /\ res.arg >= CommittedLen(sii)
     /\ res.arg < CommittedLen(sii) + Len(sii.cinfo_list))
    => /\ res.ret = "OK"
       /\ res.target = Desc(sii.cinfo_list[res.arg - CommittedLen(sii) + 1])

\* The extent of every cluster ends before what follows it: the next
\* cluster's offset, or, for the last cluster written by the commit, the aligned
\* position where the commit goes on to write index records or the footer.
C7_PendingDisjoint ==
    \A i \in 1 .. Len(sii.cinfo_list) - 1 :
        sii.cinfo_list[i].offset + sii.cinfo_list[i].size + sii.cinfo_list[i].pad
            <= sii.cinfo_list[i + 1].offset

C7_CommittedDisjoint ==
    sii.cinfo_array_st = "valid" =>
        \A i \in 1 .. Len(sii.cinfo_array) - 1 :
            sii.cinfo_array[i].offset + sii.cinfo_array[i].size
                <= sii.cinfo_array[i + 1].offset

C7_LastBeforeMeta ==
    res.op = "put" =>
        \A i, j \in 1 .. Len(res.log) :
            (/\ i < j
             /\ res.log[i].ev = "write" /\ res.log[i].kind = "cluster"
             /\ res.log[j].ev = "write"
             /\ res.log[j].kind \in {"array", "cinfo", "footer"})
            => res.log[i].pos + res.log[i].size + res.log[i].pad <= res.log[j].pos

\* C7: no extent overlaps what follows it, in the pending list, in the committed
\* array and in the writes of a commit.
C7_NoOverlap == C7_PendingDisjoint /\ C7_CommittedDisjoint /\ C7_LastBeforeMeta

\* C8 as stated: a resolve at or beyond the cluster count of the file's current
\* size returns the range error, no descriptor, and runs no reload.
C8_RangeCheckedFirst ==
    (res.op = "resolve" /\ res.arg >= res.pre_clusters)
    => /\ res.ret = "EINVAL"
       /\ res.target = NoTarget
       /\ ~HasEv(res.log, "reload")

\* C8 amended: a resolve at or beyond the cluster count of the size the file has
\* once any reload has run returns no descriptor: the range error, or the
\* reload's error when the reload failed.  The reload comes before the check.
C8_RangeCheckedAfterReload ==
    (res.op = "resolve" /\ res.arg >= CLUSTER_COUNT(sii))
    => /\ res.ret # "OK"
       /\ res.target = NoTarget
       /\ ~HasEv(res.log, "lookup")
       /\ \/ res.ret = "EINVAL" /\ HasEv(res.log, "range")
          \/ res.pre_invalid /\ HasEv(res.log, "reload") /\ ~HasEv(res.log, "range")
       /\ res.pre_invalid => HasEv(res.log, "reload")

C8_Witness ==
    /\ res.op = "resolve" /\ res.arg >= CLUSTER_COUNT(sii)
    /\ res.pre_invalid /\ HasEv(res.log, "reload")
    /\ res.ret = "EINVAL" /\ HasEv(res.log, "range")

\* C9: on a file whose metadata is marked invalid, resolve reloads before it
\* looks anything up; a failed reload gives the error, no descriptor, and the
\* flag stays set; the flag is clear afterwards only when the reload succeeded.
C9_ReloadFirst ==
    (res.op = "resolve" /\ res.pre_invalid)
    => /\ Len(res.log) > 0 /\ res.log[1] = Ev("reload")
       /\ (~HasEv(res.log, "range") /\ ~HasEv(res.log, "lookup"))
            => (res.ret # "OK" /\ res.target = NoTarget /\ sii.invalid_meta)
       /\ ~sii.invalid_meta
            => /\ HasEv(res.log, "range") \/ HasEv(res.log, "lookup")
               /\ lower.fpos >= 0 /\ lower.footer.magic
               /\ sii.cinfo_array_size = lower.footer.footer_size - CF_SIZE
               /\ sii.cinfo_array_size > 0 => sii.cinfo_array_st = "valid"

C9_Witness ==
    /\ res.op = "resolve" /\ res.pre_invalid
    /\ res.ret = "ENOMEM" /\ sii.invalid_meta /\ res.target = NoTarget

\* C10: the commit keeps the compressed form of the staged last cluster, and
\* sets the compressed flag, exactly when the number of bytes the codec produced
\* is strictly below staged_bytes * threshold / 100; otherwise the raw bytes are
\* written, the size is staged_bytes and the flag is left as it was.
C10_StrictThreshold ==
    res.op = "put" =>
        \A i \in 1 .. Len(res.log) :
            (res.log[i].ev = "write" /\ res.log[i].kind = "cluster") =>
                LET e == res.log[i]
                    below == e.produced < (e.staged * sbi.comp_threshold) \div 100
                IN  /\ below => /\ e.source = "c_buffer" /\ e.size = e.produced
                                /\ e.now_compressed
                    /\ ~below => /\ e.source = "u_buffer" /\ e.size = e.staged
                                 /\ e.now_compressed = e.was_compressed

\* ------------------------------------------------------------ claims, commit
\* C11: a commit whose codec fails on the staged last cluster writes the staged
\* raw bytes at the descriptor's offset with size = staged_bytes, goes on to
\* write the footer, and returns no error.
C11_CompressFailureStoresRaw ==
    (res.op = "put" /\ HasEv(res.log, "compress_failed")) =>
        /\ res.ret = "OK"
        /\ \E i \in 1 .. Len(res.log) :
             /\ res.log[i].ev = "write" /\ res.log[i].kind = "cluster"
             /\ res.log[i].source = "u_buffer"
             /\ res.log[i].size = res.log[i].staged
        /\ CountWrites(res.log, "footer") = 1

\* C12: every commit that returns an error returns with the meta-invalid flag set.
C12_FailedCommitInvalidates ==
    (res.op = "put" /\ HasEv(res.log, "meta") /\ res.ret \notin {"OK", "HANG"})
    => sii.invalid_meta

\* ------------------------------------------------------------ claims, truncate
\* The last call was a truncate to zero that returned success.
Truncated == res.op = "truncate" /\ res.arg = 0 /\ res.ret = "OK"

\* C13: a successful truncate to zero leaves the upper size 0, the pending list
\* empty without having written it, the committed array empty with
\* cinfo_array_size 0, no staged bytes, the lower file of length 0 and the
\* meta-invalid flag clear; a truncate to a nonzero size returns EINVAL and
\* changes nothing.
C13_TruncateStep ==
    res'.op = "truncate" =>
        /\ (res'.arg = 0 /\ res'.ret = "OK") =>
              /\ sii'.i_size = 0 /\ sii'.upper_file_size = 0
              /\ sii'.cinfo_list = << >>
              /\ ~HasEv(res'.log, "write")
              /\ sii'.cinfo_array = << >> /\ sii'.cinfo_array_st = "NULL"
              /\ sii'.cinfo_array_size = 0
              /\ sii'.original_size = 0
              /\ lower'.size = 0 /\ lower'.fpos = -1 /\ lower'.ipos = -1
              /\ ~sii'.invalid_meta
        /\ res'.arg # 0 =>
              /\ res'.ret = "EINVAL"
              /\ sii' = sii /\ sbi' = sbi /\ lower' = lower

C13_TruncateZeroResets == [][C13_TruncateStep]_vars

\* A truncate succeeded on a file that had pending entries and a loaded
\* committed array.
C13_Witness ==
    /\ Truncated
    /\ \E i \in 1 .. Len(res.log) :
         res.log[i].ev = "discard" /\ res.log[i].entries > 0
    /\ \E i \in 1 .. Len(res.log) :
         res.log[i].ev = "cinfo_free" /\ res.log[i].was = "valid"

\* The file was truncated to zero and one cluster was begun since: its entry,
\* of index 0, is the last of the pending list.
FirstClusterAfterTruncate ==
    /\ hist.truncated /\ ~TruncateFailed
    /\ sii.i_size \in 1 .. ClusterSize
    /\ sii.cinfo_list # << >>
    /\ Last(sii.cinfo_list).idx = 0

\* C14: after a truncate to zero and the write of one cluster, a resolve of
\* cluster 0 returns the descriptor of the cluster written since the truncate,
\* never one that was in the index before it.
C14_ResolveAfterTruncate ==
    (res.op = "resolve" /\ res.arg = 0 /\ ~res.pre_invalid
     /\ FirstClusterAfterTruncate)
    => /\ res.ret = "OK"
       /\ res.target = Desc(Last(sii.cinfo_list))

\* Cluster 0 was resolved after a truncate that discarded pending entries and a
\* committed array, and after one whole cluster was written.
C14_Witness ==
    /\ res.op = "resolve" /\ res.arg = 0 /\ res.ret = "OK"
    /\ FirstClusterAfterTruncate
    /\ hist.leftover
    /\ sii.i_size = ClusterSize /\ sii.original_size = 0

\* ------------------------------------------------------------ space admission
\* kstatfs.f_bsize values of the lower file system: a block of a page, or smaller.
BlockSizes == {PAGE_SIZE \div 4, PAGE_SIZE}

\* Lines 706-708: the space the pending metadata and the buffered data need.
min_space(b) ==
    b.total_cluster_count * CinfoSize + b.current_file_count * CF_SIZE
    + b.current_data_size + PAGE_SIZE

\* scfs_check_space(sbi, dentry): st is what statfs of the lower file system
\* gave ([ret, f_bavail, f_bsize]).  Returns [w, ret, log].
scfs_check_space(w, st) ==
    [w |-> w,
     ret |-> IF st.ret # "OK" THEN st.ret
             ELSE IF st.f_bavail * PAGE_SIZE < min_space(w.sbi) THEN "ENOSPC"
             ELSE "OK",
     log |-> << [ev |-> "statfs", ret |-> st.ret, f_bavail |-> st.f_bavail,
                 f_bsize |-> st.f_bsize] >>]

StatfsOutcomes ==
    {[ret |-> r, f_bavail |-> a, f_bsize |-> b] :
        r \in {"OK", "EIO"}, a \in 0 .. MaxBlocks, b \in BlockSizes}

\* The counters of a mount with several files at work.
InitSpace ==
    /\ \E ct \in CompTypes : sii = InitSii(ct, TRUE)
    /\ \E thr \in Thresholds, n \in 0 .. MaxCounted, f \in 0 .. MaxFiles,
          d \in {0, ClusterSize \div 2, ClusterSize} :
         sbi = [InitSbi(thr) EXCEPT !.total_cluster_count = n,
                                    !.current_file_count = f,
                                    !.current_data_size = d]
    /\ lower = InitLower
    /\ pc = [t \in Threads |-> "idle"]
    /\ loc = InitLoc
    /\ res = NoResult
    /\ hist = InitHist

\* The pre-flight check of a write: scfs_check_space.
CheckSpace ==
    /\ \E st \in StatfsOutcomes :
         LET r == scfs_check_space(World, st)
         IN  /\ SetWorld(r.w)
             /\ res' = Result("check_space", 0, r, NoTarget)
    /\ UNCHANGED <<pc, loc, hist>>

SpecSpace == InitSpace /\ [][CheckSpace]_vars

\* ------------------------------------------------------------ claims, space admission
\* C15: scfs_check_space returns ENOSPC exactly when the available space of the
\* lower file system, f_bavail blocks of f_bsize bytes, is below the estimate
\* (descriptors, footers, buffered data and one block of slack), returns 0
\* otherwise, and changes nothing.
C15_Admission ==
    res'.op = "check_space" =>
        /\ \A i \in 1 .. Len(res'.log) :
             res'.log[i].ret = "OK" =>
                 (res'.ret = "ENOSPC") =
                     (res'.log[i].f_bavail * res'.log[i].f_bsize < min_space(sbi))
        /\ res'.ret \in {"OK", "ENOSPC", "EIO"}
        /\ sii' = sii /\ sbi' = sbi /\ lower' = lower

C15_SpaceAdmission == [][C15_Admission]_vars

\* ------------------------------------------------------------ lower I/O loops
\* The locals of scfs_lower_read / scfs_lower_write (done: read or written).
\* transients counts the -EINTR / -EAGAIN results of the call; stuck: the
\* lower primitive answers this call with transient errors only.
NoIo == [count |-> 0, done |-> 0, retry |-> 0, transients |-> 0, stuck |-> FALSE]

Transient == {"EINTR", "EAGAIN"}

\* What vfs_read / vfs_write may return when asked for the rest of the bytes:
\* an error, or the number n of bytes transferred.
VfsOutcomes(l) ==
    {[err |-> e, n |-> 0] : e \in Transient}
    \cup (IF l.stuck THEN {}
          ELSE {[err |-> "EIO", n |-> 0]}
               \cup {[err |-> "OK", n |-> k] : k \in 0 .. (l.count - l.done)})

\* One pass of the loop at lines 1164-1185 (1196-1217) with the primitive
\* returning r.  Returns [l, returned, ret].
lower_io_pass(l, r) ==
    IF r.err \in Transient
    THEN [l |-> [l EXCEPT !.transients = IF @ < MaxInterrupts THEN @ + 1 ELSE @],
          returned |-> FALSE, ret |-> "OK"]
    ELSE IF r.err # "OK"
    THEN [l |-> l, returned |-> TRUE, ret |-> r.err]
    ELSE IF l.retry + 1 > SCFS_IO_MAX_RETRY
    THEN [l |-> [l EXCEPT !.done = @ + r.n, !.retry = @ + 1],
          returned |-> TRUE, ret |-> "EIO"]
    ELSE [l |-> [l EXCEPT !.done = @ + r.n, !.retry = @ + 1],
          returned |-> l.done + r.n >= l.count, ret |-> "OK"]

InitRetry ==
    /\ \E ct \in CompTypes : sii = InitSii(ct, TRUE)
    /\ \E thr \in Thresholds : sbi = InitSbi(thr)
    /\ lower = InitLower
    /\ pc = [t \in Threads |-> "idle"]
    /\ loc = [t \in Threads |-> NoIo]
    /\ res = NoResult
    /\ hist = InitHist

InLowerIo == pc[Caller] \in {"lower_read", "lower_write"}

\* scfs_lower_read or scfs_lower_write is called for count bytes.
LowerCall ==
    /\ pc[Caller] = "idle"
    /\ \E op \in {"lower_read", "lower_write"}, count \in 1 .. MaxCount,
          stuck \in BOOLEAN :
         /\ pc' = [pc EXCEPT ![Caller] = op]
         /\ loc' = [loc EXCEPT ![Caller] = [NoIo EXCEPT !.count = count,
                                                        !.stuck = stuck]]
    /\ res' = NoResult
    /\ UNCHANGED <<sii, sbi, lower, hist>>

\* One pass of the loop.
LowerPass ==
    /\ InLowerIo
    /\ \E r \in VfsOutcomes(loc[Caller]) :
         LET p == lower_io_pass(loc[Caller], r)
         IN  IF p.returned
             THEN /\ pc' = [pc EXCEPT ![Caller] = "idle"]
                  /\ loc' = [loc EXCEPT ![Caller] = NoIo]
                  /\ res' = [NoResult EXCEPT
                               !.op = pc[Caller], !.arg = p.l.count, !.ret = p.ret,
                               !.log = << [ev |-> "lower_io", done |-> p.l.done,
                                           retry |-> p.l.retry,
                                           transients |-> p.l.transients] >>]
             ELSE /\ loc' = [loc EXCEPT ![Caller] = p.l]
                  /\ UNCHANGED <<pc, res>>
    /\ UNCHANGED <<sii, sbi, lower, hist>>

NextRetry == LowerCall \/ LowerPass

\* The loop keeps running while it has not returned.
SpecRetry == InitRetry /\ [][NextRetry]_vars /\ WF_vars(LowerPass)

\* ------------------------------------------------------------ claims, lower I/O
\* C16: scfs_lower_read and scfs_lower_write always return: a call that has
\* begun comes back, also when the lower primitive keeps returning -EINTR or
\* -EAGAIN.
C16_LowerIoTerminates == InLowerIo ~> ~InLowerIo

\* ------------------------------------------------------------ codec calls
\* What the codec does when it expands a cluster: it produces the bytes of the
\* cluster (a whole one, or the short last one), or fails.
DecompOutcomes ==
    {[nomem |-> FALSE, fail |-> FALSE, produced |-> p] :
        p \in {ClusterSize \div 2, ClusterSize}}
    \cup {[nomem |-> TRUE, fail |-> FALSE, produced |-> 1],
          [nomem |-> FALSE, fail |-> TRUE, produced |-> 1]}

CodecEv(algo, c, r) ==
    [ev |-> "codec", algo |-> algo, capacity |-> ClusterSize,
     produced |-> c.produced, actual |-> r.actual]

\* scfs_compress of len bytes with *actual = cluster size.
CodecCompress ==
    /\ \E algo \in CompTypes, len \in 1 .. ClusterSize, c \in CompOutcomes :
         LET r == scfs_compress(algo, len, ClusterSize, c)
         IN  res' = [NoResult EXCEPT !.op = "compress", !.arg = len, !.ret = r.ret,
                                     !.log = << CodecEv(algo, c, r) >>]
    /\ UNCHANGED <<sii, sbi, lower, pc, loc, hist>>

\* scfs_decompress of len compressed bytes with *actual = cluster size.
CodecDecompress ==
    /\ \E algo \in CompTypes, len \in 1 .. ClusterSize, c \in DecompOutcomes :
         LET r == scfs_decompress(algo, len, ClusterSize, c)
         IN  res' = [NoResult EXCEPT !.op = "decompress", !.arg = len, !.ret = r.ret,
                                     !.log = << CodecEv(algo, c, r) >>]
    /\ UNCHANGED <<sii, sbi, lower, pc, loc, hist>>

NextCodec == CodecCompress \/ CodecDecompress

SpecCodec == Init /\ [][NextCodec]_vars

\* ------------------------------------------------------------ claims, codec
\* C17: for every algorithm a successful scfs_compress and a successful
\* scfs_decompress leave in *actual the number of bytes the codec produced, not
\* the capacity the caller passed in.
C17_ActualIsProduced ==
    (res.op \in {"compress", "decompress"} /\ res.ret = "OK")
    => \A i \in 1 .. Len(res.log) : res.log[i].actual = res.log[i].produced

\* C20: a truncate that changes the upper file size or the pending list has
\* resized the lower file or leaves the meta-invalid flag set; in particular a
\* truncate to zero whose lower resize fails does not leave the upper size and
\* the pending list changed with the flag clear.
C20_TruncateStepFlagged ==
    (res'.op = "truncate"
     /\ (sii'.i_size # sii.i_size \/ sii'.cinfo_list # sii.cinfo_list))
    => (lower'.size = sii'.i_size \/ sii'.invalid_meta)

C20_SizeChangeFlagged == [][C20_TruncateStepFlagged]_vars

\* ------------------------------------------------------------ claims, round trip
\* The last call was a resolve whose reload succeeded, and the footer it read
\* is that of a commit that succeeded and wrote index records.
ReloadedCommit ==
    /\ res.op = "resolve" /\ res.pre_invalid
    /\ HasEv(res.log, "reload") /\ ~sii.invalid_meta
    /\ hist.indexed

\* The record i of the reloaded array is the descriptor the index had before
\* the commit; of a cluster still staged then, whose size the commit set, the
\* offset is compared.
SameAsBeforeCommit(i) ==
    IF hist.staged_last /\ i = Len(hist.index)
    THEN sii.cinfo_array[i].offset = hist.index[i].offset
    ELSE sii.cinfo_array[i] = hist.index[i]

\* C18, as stated: after a successful commit and a successful reload the
\* committed array is the sequence of before the commit (the committed
\* descriptors before the first pending index, then the pending descriptors).
C18_RoundTripExact ==
    ReloadedCommit => sii.cinfo_array = hist.index

\* C18: after a successful commit of a file that used compression and a
\* successful reload, the committed array has one record for each descriptor of
\* before the commit, in order and equal to it, but for the size of a last
\* cluster that was still staged, which the commit sets; a resolve returns the
\* record of the array.
C18_RoundTrip ==
    ReloadedCommit =>
        /\ sii.cinfo_array_st = "valid"
        /\ Len(sii.cinfo_array) = Len(hist.index)
        /\ sii.cinfo_array_size = CinfoSize * Len(hist.index)
        /\ \A i \in 1 .. Len(hist.index) : SameAsBeforeCommit(i)
        /\ res.ret = "OK" => res.target = sii.cinfo_array[res.arg + 1]

\* A reload after a commit that wrote a committed record and a pending one,
\* the cluster of the pending one having been staged until the commit.
C18_Witness ==
    /\ ReloadedCommit
    /\ res.ret = "OK"
    /\ Len(hist.index) > 1
    /\ hist.staged_last
    /\ sii.cinfo_array # hist.index

\* ------------------------------------------------------------ claims, footer position
\* The bytes of the index records a call wrote (committed prefix and batches).
RECURSIVE IndexBytes(_)
IndexBytes(log) ==
    IF log = << >> THEN 0
    ELSE (IF Head(log).ev = "write" /\ Head(log).kind \in {"array", "cinfo"}
          THEN Head(log).len ELSE 0) + IndexBytes(Tail(log))

\* The last call was a commit that succeeded and wrote a footer.
FooterCommitted ==
    res.op = "put" /\ res.ret = "OK" /\ CountWrites(res.log, "footer") > 0

C26_ResolveReleasesMutex ==
    (res.op = "resolve" /\ res.ret # "HANG") => sii.cinfo_list_mutex = 0

\* C27: sbi->total_cluster_count is the number of entries in the pending list
\* (of the one file of the mount): whatever removes entries counts them down.
C27_CountMatchesPending ==
    sbi.total_cluster_count = Len(sii.cinfo_list)

\* C28: while the raw scratch buffer is not allocated no bytes are staged, and
\* a commit that has returned leaves the pending list empty.
C28_NoStagedWithoutBuffer ==
    /\ ~sii.u_buffer => sii.original_size = 0
    /\ (res.op = "put" /\ HasEv(res.log, "meta") /\ res.ret # "HANG")
         => (~sii.u_buffer /\ ~sii.c_buffer /\ sii.cinfo_list = << >>)

\* C29: sii->cinfo_array never points at freed memory once a resolve has
\* returned, no array is freed twice, and a lookup in the committed array reads
\* an array that is allocated.
C29_NoStaleArray ==
    /\ res.op = "resolve" => sii.cinfo_array_st # "freed"
    /\ \A i \in 1 .. Len(res.log) :
         res.log[i].ev = "cinfo_free" => res.log[i].was = "valid"
    /\ (res.op = "resolve" /\ HasEv(res.log, "lookup")
        /\ res.arg * CinfoSize < sii.cinfo_array_size)
       => sii.cinfo_array_st = "valid"

\* ------------------------------------------------------------ index flush on its own
\* A pending list of n entries as the write path leaves it: indices from
\* first on, each cluster at the aligned end of the one before, sizes[i] bytes.
RECURSIVE PendingOf(_, _, _)
PendingOf(first, start, sizes) ==
    IF sizes = << >> THEN << >>
    ELSE << [idx |-> first, offset |-> start, size |-> Head(sizes),
             pad |-> ALIGN(Head(sizes), SCFS_CLUSTER_ALIGN_BYTE) - Head(sizes)] >>
         \o PendingOf(first + 1,
                      ALIGN(start + Head(sizes), SCFS_CLUSTER_ALIGN_BYTE),
                      Tail(sizes))

\* The sizes of n clusters: each kept compressed (1 byte) or stored raw.
SizesOf(n) == [1 .. n -> {1, ClusterSize}]

\* The inode at the call of scfs_write_cinfo in a commit: the lower file is
\* open, the buffers are allocated, sii->compressed is set, k clusters are in
\* the committed array (one byte each) and the pending list follows them.
FlushSii(ct, k, sizes) ==
    [InitSii(ct, TRUE) EXCEPT
        !.lower_file_count = 0,
        !.lower_file = "open",
        !.lower_file_mutex = 1,
        !.cinfo_list_mutex = 0,
        !.compressed = TRUE,
        !.i_size = (k + Len(sizes)) * ClusterSize,
        !.upper_file_size = (k + Len(sizes)) * ClusterSize,
        !.cinfo_array = [i \in 1 .. k |->
                           [offset |-> (i - 1) * SCFS_CLUSTER_ALIGN_BYTE, size |-> 1]],
        !.cinfo_array_st = IF k = 0 THEN "NULL" ELSE "valid",
        !.cinfo_array_size = k * CinfoSize,
        !.cinfo_list = PendingOf(k, k * SCFS_CLUSTER_ALIGN_BYTE, sizes),
        !.u_buffer = TRUE,
        !.c_buffer = TRUE]

InitFlush ==
    /\ \E ct \in CompTypes, k \in 0 .. 1, n \in 1 .. MaxPending :
       \E sizes \in SizesOf(n) :
         /\ sii = FlushSii(ct, k, sizes)
         /\ \E thr \in Thresholds :
              sbi = [InitSbi(thr) EXCEPT !.total_cluster_count = n,
                                         !.current_file_count = 1]
    /\ lower = InitLower
    /\ pc = [t \in Threads |-> "idle"]
    /\ loc = InitLoc
    /\ res = NoResult
    /\ hist = InitHist

\* scfs_write_cinfo is called once, at the aligned end of the last cluster.
FlushPending ==
    /\ res.op = "none"
    /\ \E f \in {"none", "array", "batch1", "batch2"} :
         LET r == scfs_write_cinfo(World,
                     ALIGN(Last(sii.cinfo_list).offset + Last(sii.cinfo_list).size,
                           SCFS_CLUSTER_ALIGN_BYTE),
                     [QuietIO EXCEPT !.fail = f])
         IN  /\ SetWorld(r.w)
             /\ res' = Result("write_cinfo", 0,
                              [ret |-> r.ret,
                               log |-> Append(r.log, [ev |-> "return", n |-> r.n])],
                              NoTarget)
    /\ UNCHANGED <<pc, loc, hist>>

SpecFlush == InitFlush /\ [][FlushPending]_vars

\* ------------------------------------------------------------ claims, index flush
\* The records of the batch writes of a log, in the order they were written.
RECURSIVE BatchRecs(_)
BatchRecs(log) ==
    IF log = << >> THEN << >>
    ELSE (IF Head(log).ev = "write" /\ Head(log).kind = "cinfo"
          THEN Head(log).recs ELSE << >>) \o BatchRecs(Tail(log))

\* What one call of scfs_write_cinfo does to the pending list it was given.
C24_FlushStep ==
    res'.op = "write_cinfo" =>
        /\ \A i \in 1 .. Len(res'.log) :
             (res'.log[i].ev = "write" /\ res'.log[i].kind = "cinfo")
             => /\ res'.log[i].staged <= 2 * ClusterSize
                /\ res'.log[i].len = res'.log[i].staged
        /\ Len(BatchRecs(res'.log)) <= Len(sii.cinfo_list)
        /\ \A i \in 1 .. Len(BatchRecs(res'.log)) :
             BatchRecs(res'.log)[i] = Desc(sii.cinfo_list[i])
        /\ res'.ret = "OK" =>
             /\ Len(BatchRecs(res'.log)) = Len(sii.cinfo_list)
             /\ sii'.cinfo_list = << >>
             /\ Last(res'.log).n = IndexBytes(res'.log)
             /\ Last(res'.log).n = sii.cinfo_array_size
                                   + CinfoSize * Len(sii.cinfo_list)

\* C24: scfs_write_cinfo, for a pending list of any length, writes every
\* pending descriptor once and in list order, stages at most 2 * cluster_size
\* bytes before each write, returns the number of index bytes written and
\* leaves the list empty on success.
C24_FlushWritesAll == [][C24_FlushStep]_vars

\* A flush of a list that takes three batches, after a committed prefix.
C24_Witness ==
    /\ res.op = "write_cinfo" /\ res.ret = "OK"
    /\ CountWrites(res.log, "array") = 1
    /\ CountWrites(res.log, "cinfo") >= 3
    /\ Len(BatchRecs(res.log)) = MaxPending
    /\ sii.cinfo_list = << >>

\* ------------------------------------------------------------ read path
\* PAGE_TO_CLUSTER_INDEX(page, sii): the cluster a page of the upper file is in.
PAGE_TO_CLUSTER_INDEX(page_index) == page_index \div (ClusterSize \div PAGE_SIZE)

\* Lines 466-474 of scfs_read_cluster: *compressed for the descriptor size of
\* cluster cluster_idx in a file of i_size bytes.
read_is_compressed(i_size, cluster_idx, size) ==
    IF size = ClusterSize THEN FALSE
    ELSE IF cluster_idx = (i_size + ClusterSize - 1) \div ClusterSize - 1
            /\ i_size % ClusterSize = size
         THEN FALSE
         ELSE TRUE

\* Lines 987-991 of scfs_get_cluster_from_lower: the cluster is decompressed
\* (the function is given the descriptor, not the index of the cluster).
load_is_compressed(compressable, i_size, size) ==
    compressable /\ size < ClusterSize /\ i_size % ClusterSize # size

\* What the lower layer does for one scfs_read_cluster: rio.read_ok (the read of
\* the cluster succeeds), rio.comp (what the codec does, see scfs_decompress).
ReadOutcomes ==
    {[read_ok |-> r, comp |-> c] : r \in BOOLEAN, c \in DecompOutcomes}

\* Lines 488-545: the cluster (or the page of a raw cluster) is read from the
\* lower file and decompressed when it was compressed.
read_from_lower(w, compressed, pos, size, rio, log) ==
    LET rd == Append(log, [ev |-> "lower_read", pos |-> pos, size |-> size,
                           compressed |-> compressed])
        d == scfs_decompress(w.sii.comp_type, size, ClusterSize, rio.comp)
    IN  IF w.sii.lower_file = "NULL"
        THEN [w |-> w, ret |-> "EINVAL", log |-> log]
        ELSE IF ~rio.read_ok
        THEN [w |-> w, ret |-> "EIO", log |-> Append(rd, Ev("unlock_page"))]
        ELSE IF compressed /\ d.ret # "OK"
        THEN [w |-> w, ret |-> d.ret, log |-> Append(rd, Ev("unlock_page"))]
        ELSE [w |-> w, ret |-> "OK", log |-> rd]

\* Lines 450-476, g being what get_cluster_info returned; i_size is the size
\* read at line 418, before any reload.
read_resolved(g, i_size, cluster_idx, rio, log) ==
    IF g.ret # "OK"
    THEN [w |-> g.w, ret |-> g.ret, log |-> log \o g.log]
    ELSE IF g.target.size < 1 \/ g.target.size > ClusterSize
    THEN [w |-> g.w, ret |-> "EINVAL", log |-> log \o g.log]
    ELSE read_from_lower(g.w,
                         read_is_compressed(i_size, cluster_idx, g.target.size),
                         g.target.offset, g.target.size, rio, log \o g.log)

\* Lines 477-485: a file that is not compressible is read where it lies.
read_plain(w, i_size, cluster_idx, rio, log) ==
    read_from_lower(w, FALSE, cluster_idx * ClusterSize,
                    IF cluster_idx = (i_size + ClusterSize - 1) \div ClusterSize - 1
                       /\ i_size % ClusterSize # 0
                    THEN i_size % ClusterSize ELSE ClusterSize,
                    rio, log)

\* scfs_read_cluster(file, page, buf_c, &buf_u, &compressed) for the page of
\* index page_index: returns [w, ret, log].
scfs_read_cluster(w, page_index, io, rio) ==
    LET i_size == w.sii.i_size
        last_cluster_idx == (i_size + ClusterSize - 1) \div ClusterSize - 1
        cluster_idx == PAGE_TO_CLUSTER_INDEX(page_index)
        log == << [ev |-> "read_cluster", i_size |-> i_size, page |-> page_index,
                   cluster_idx |-> cluster_idx] >>
    IN  IF i_size = 0
        THEN [w |-> w, ret |-> "OK", log |-> Append(log, Ev("unlock_page"))]
        ELSE IF page_index * PAGE_SIZE >= i_size
        THEN [w |-> w, ret |-> "OK", log |-> Append(log, Ev("unlock_page"))]
        ELSE IF cluster_idx > last_cluster_idx
        THEN [w |-> w, ret |-> "ERANGE", log |-> log]
        ELSE IF w.sii.compressable
        THEN read_resolved(get_cluster_info(w, cluster_idx, io), i_size,
                           cluster_idx, rio, log)
        ELSE read_plain(w, i_size, cluster_idx, rio, log)

\* ------------------------------------------------------------ reads among the calls
\* The pages a reader asks for: those of the largest file and one beyond.
Pages == 0 .. MaxClusters * (ClusterSize \div PAGE_SIZE)

\* readpage of the upper file: scfs_read_cluster for one page.
ReadCluster ==
    /\ Live
    /\ loc[Caller].held > 0
    /\ sii.lower_file_mutex = 0
    /\ \E p \in Pages :
       \E io \in (IF ~sii.compressable \/ p * PAGE_SIZE >= sii.i_size THEN {QuietIO}
                  ELSE IF sii.invalid_meta THEN ReloadIO
                  ELSE IF sii.cinfo_array_st = "freed" THEN StaleIO ELSE {QuietIO}) :
       \E rio \in (IF p * PAGE_SIZE >= sii.i_size
                   THEN {[read_ok |-> TRUE, comp |-> QuietIO.comp]}
                   ELSE ReadOutcomes) :
         LET r == scfs_read_cluster(World, p, io, rio)
         IN  /\ SetWorld(r.w)
             /\ res' = Result("read_cluster", p, r, NoTarget)
    /\ UNCHANGED <<pc, loc, hist>>

NextRead == Open \/ Close \/ WriteBytes \/ Resolve \/ CorruptFooter \/ ReadCluster

SpecRead == Init /\ [][NextRead]_vars

\* ------------------------------------------------------------ claims, read path
\* C23: a read of a page at or beyond the size of the upper file, or of a
\* cluster beyond the last one, returns an error and reads nothing from the
\* lower file.
C23_OutOfRangeFails ==
    (res.op = "read_cluster"
     /\ (res.arg * PAGE_SIZE >= res.log[1].i_size
         \/ res.log[1].cluster_idx > res.pre_clusters - 1))
    => /\ res.ret # "OK"
       /\ ~HasEv(res.log, "lower_read")
       /\ ~HasEv(res.log, "reload")

\* ------------------------------------------------------------ classification on its own
\* The sizes the descriptor of cluster cluster_idx can have in a file of i_size
\* bytes: a compressed length below the bytes of the cluster, or these bytes.
DescSizes(i_size, cluster_idx) ==
    IF cluster_idx = (i_size + ClusterSize - 1) \div ClusterSize - 1
       /\ i_size % ClusterSize # 0
    THEN 1 .. (i_size % ClusterSize)
    ELSE 1 .. ClusterSize

ClassifyEv(i_size, cluster_idx, size, compressed) ==
    [ev |-> "classify", i_size |-> i_size, cluster_idx |-> cluster_idx,
     size |-> size, compressed |-> compressed]

\* The page read path classifies the descriptor of a cluster of the file.
ClassifyRead ==
    /\ \E i_size \in 1 .. MaxClusters * ClusterSize :
       \E c \in 0 .. (i_size + ClusterSize - 1) \div ClusterSize - 1 :
       \E size \in DescSizes(i_size, c) :
         res' = [NoResult EXCEPT
                   !.op = "classify_read", !.arg = c,
                   !.log = << ClassifyEv(i_size, c, size,
                                         read_is_compressed(i_size, c, size)) >>]
    /\ UNCHANGED <<sii, sbi, lower, pc, loc, hist>>

\* The buffer load path classifies the descriptor of a cluster of the file.
ClassifyLoad ==
    /\ \E i_size \in 1 .. MaxClusters * ClusterSize :
       \E c \in 0 .. (i_size + ClusterSize - 1) \div ClusterSize - 1 :
       \E size \in DescSizes(i_size, c) :
         res' = [NoResult EXCEPT
                   !.op = "classify_load", !.arg = c,
                   !.log = << ClassifyEv(i_size, c, size,
                                 load_is_compressed(sii.compressable, i_size, size)) >>]
    /\ UNCHANGED <<sii, sbi, lower, pc, loc, hist>>

NextClassify == ClassifyRead \/ ClassifyLoad

SpecClassify == Init /\ [][NextClassify]_vars

\* ------------------------------------------------------------ claims, classification
\* The cluster of event e is stored raw: its size is the cluster size, or it is
\* the last cluster and its size is file_size mod cluster_size.
StoredRaw(e) ==
    \/ e.size = ClusterSize
    \/ /\ e.cluster_idx = (e.i_size + ClusterSize - 1) \div ClusterSize - 1
       /\ e.size = e.i_size % ClusterSize

\* C25: the page read path and the buffer load path both take a cluster for
\* raw exactly when its size is the cluster size or it is the last cluster with
\* size file_size mod cluster_size, so they agree on every cluster of a file.
C25_SameClassification ==
    res.op \in {"classify_read", "classify_load"} =>
        \A i \in 1 .. Len(res.log) : res.log[i].compressed = ~StoredRaw(res.log[i])

\* ------------------------------------------------------------ resolve and truncate, step by step
\* Threads that each hold a reference run get_cluster_info (with its reload)
\* and scfs_truncate one statement at a time on the same file.

\* The locals of a call: arg (cluster_idx), ptr (the index of the pending entry
\* cinfo points into, -1: none), seen (what that entry held when it was found),
\* dangling (that entry was freed since), buf (the array read by the reload), ret.
RaceLoc == [held |-> 1, arg |-> 0, ptr |-> -1, seen |-> NoTarget,
            dangling |-> FALSE, buf |-> << >>, ret |-> "OK"]

\* n more references are taken on the open file.
RECURSIVE Acquired(_, _)
Acquired(w, n) ==
    IF n = 0 THEN w ELSE Acquired(scfs_get_lower_file(w, TRUE).w, n - 1)

\* The file after a session that wrote one whole cluster, kept compressed,
\* and committed it: the footer and the index are in the lower file and the
\* meta-invalid flag is set.
Committed(ct, thr) ==
    scfs_put_lower_file(
        write_bytes(scfs_get_lower_file([sii |-> InitSii(ct, TRUE),
                                         sbi |-> InitSbi(thr),
                                         lower |-> InitLower], TRUE).w,
                    ClusterSize, QuietIO).w,
        QuietIO).w

\* The files the threads meet: one cluster pending, two clusters pending (the
\* second staged), one cluster committed and the flag set, the same with the
\* committed array loaded by an earlier reload.
RaceWorlds(ct, thr) ==
    LET w0 == [sii |-> InitSii(ct, TRUE), sbi |-> InitSbi(thr), lower |-> InitLower]
        w1 == write_bytes(scfs_get_lower_file(w0, TRUE).w, ClusterSize, QuietIO).w
        w2 == write_bytes(w1, ClusterSize \div 2, QuietIO).w
        w3 == scfs_get_lower_file(Committed(ct, thr), TRUE).w
        w4 == scfs_get_lower_file(
                 scfs_put_lower_file(
                    write_bytes(get_cluster_info(w3, 0, QuietIO).w,
                                ClusterSize \div 2, QuietIO).w,
                    QuietIO).w, TRUE).w
    IN  {Acquired(w, NThreads - 1) : w \in {w1, w2, w3, w4}}

InitRace ==
    /\ \E ct \in CompTypes, thr \in Thresholds :
       \E w \in RaceWorlds(ct, thr) :
         sii = w.sii /\ sbi = w.sbi /\ lower = w.lower
    /\ pc = [t \in Threads |-> "idle"]
    /\ loc = [t \in Threads |-> RaceLoc]
    /\ res = NoResult
    /\ hist = InitHist

\* The call of thread t returns.
RaceReturn(t, op, ret, target, log) ==
    /\ pc' = [pc EXCEPT ![t] = "done"]
    /\ loc' = [loc EXCEPT ![t] = RaceLoc]
    /\ res' = [NoResult EXCEPT !.op = op, !.arg = loc[t].arg, !.ret = ret,
                               !.target = target, !.log = log]

InReload(t) ==
    pc[t] \in {"rl_footer", "rl_get", "rl_free", "rl_alloc", "rl_install", "rl_put"}

\* Line 162: get_cluster_info tests the meta-invalid flag.
ResTest(t) ==
    /\ pc[t] = "idle"
    /\ \E c \in 0 .. MaxClusters : loc' = [loc EXCEPT ![t].arg = c]
    /\ pc' = [pc EXCEPT ![t] = IF sii.invalid_meta THEN "rl_footer" ELSE "res_range"]
    /\ UNCHANGED <<sii, sbi, lower, res, hist>>

\* Lines 93-98: scfs_footer_read.
RlFooter(t) ==
    /\ pc[t] = "rl_footer"
    /\ \E io \in {QuietIO, [QuietIO EXCEPT !.read = "footer"]} :
         LET f == scfs_footer_read(World, io)
         IN  /\ SetWorld(f.w)
             /\ IF f.ret # "OK"
                THEN RaceReturn(t, "resolve", f.ret, NoTarget, << Ev("reload") >>)
                ELSE /\ pc' = [pc EXCEPT ![t] = "rl_get"]
                     /\ UNCHANGED <<loc, res>>
    /\ UNCHANGED hist

\* Lines 99-104: scfs_get_lower_file (the file is open: the count goes up).
RlGet(t) ==
    /\ pc[t] = "rl_get"
    /\ sii.lower_file_mutex = 0
    /\ SetWorld(scfs_get_lower_file(World, TRUE).w)
    /\ pc' = [pc EXCEPT ![t] = "rl_free"]
    /\ UNCHANGED <<loc, res, hist>>

\* Lines 106-107: the old array is freed; the pointer keeps its value.
RlFree(t) ==
    /\ pc[t] = "rl_free"
    /\ sii' = IF sii.cinfo_array_st # "NULL"
              THEN [sii EXCEPT !.cinfo_array_st = "freed"] ELSE sii
    /\ pc' = [pc EXCEPT ![t] = "rl_alloc"]
    /\ UNCHANGED <<sbi, lower, loc, res, hist>>

\* Lines 111-126: the new array is allocated and read into buf.
RlAlloc(t) ==
    /\ pc[t] = "rl_alloc"
    /\ \E io \in {QuietIO, [QuietIO EXCEPT !.nomem = TRUE],
                  [QuietIO EXCEPT !.read = "index"]} :
         IF sii.cinfo_array_size # 0 /\ (io.nomem \/ io.read = "index")
         THEN /\ loc' = [loc EXCEPT ![t].ret = IF io.nomem THEN "ENOMEM" ELSE "EIO"]
              /\ pc' = [pc EXCEPT ![t] = "rl_put"]
         ELSE /\ loc' = [loc EXCEPT ![t].buf =
                             IF sii.cinfo_array_size # 0
                             THEN IndexRead(lower, sii.cinfo_array_size) ELSE << >>]
              /\ pc' = [pc EXCEPT ![t] = "rl_install"]
    /\ UNCHANGED <<sii, sbi, lower, res, hist>>

\* Lines 127-128: sii->cinfo_array = buf; clear_meta_invalid.
RlInstall(t) ==
    /\ pc[t] = "rl_install"
    /\ SetWorld(reload_done(World, loc[t].buf,
                            IF sii.cinfo_array_size # 0 THEN "valid" ELSE "NULL"))
    /\ pc' = [pc EXCEPT ![t] = "rl_put"]
    /\ UNCHANGED <<loc, res, hist>>

\* Lines 132-133 and 167-171: scfs_put_lower_file, and the return of the
\* reload to get_cluster_info.
RlPut(t) ==
    /\ pc[t] = "rl_put"
    /\ sii.lower_file_mutex = 0
    /\ sii.lower_file_count > 1
    /\ SetWorld(scfs_put_lower_file(World, QuietIO).w)
    /\ IF loc[t].ret # "OK"
       THEN RaceReturn(t, "resolve", loc[t].ret, NoTarget, << Ev("reload") >>)
       ELSE /\ pc' = [pc EXCEPT ![t] = "res_range"]
            /\ UNCHANGED <<loc, res>>
    /\ UNCHANGED hist

\* Lines 174-183: the range check and the choice of the array or the list.
ResRange(t) ==
    /\ pc[t] = "res_range"
    /\ IF out_of_range(sii, loc[t].arg)
       THEN RaceReturn(t, "resolve", "EINVAL", NoTarget, << Ev("range") >>)
       ELSE /\ pc' = [pc EXCEPT ![t] =
                        IF loc[t].arg * CinfoSize < sii.cinfo_array_size
                        THEN "res_copy" ELSE "res_lock"]
            /\ UNCHANGED <<loc, res>>
    /\ UNCHANGED <<sii, sbi, lower, hist>>

\* Line 184: mutex_lock(&sii->cinfo_list_mutex).
ResLock(t) ==
    /\ pc[t] = "res_lock"
    /\ sii.cinfo_list_mutex = 0
    /\ sii' = [sii EXCEPT !.cinfo_list_mutex = 1]
    /\ pc' = [pc EXCEPT ![t] = "res_scan"]
    /\ UNCHANGED <<sbi, lower, loc, res, hist>>

\* Lines 185-209: the scan of the list under the mutex.  The entry found is
\* remembered by address and the mutex is released.
ResScan(t) ==
    /\ pc[t] = "res_scan"
    /\ LET sc == IF sii.cinfo_list = << >>
                 THEN [ret |-> "EINVAL", target |-> NoTarget, held |-> TRUE]
                 ELSE scan_cinfo_list(sii.cinfo_list, loc[t].arg)
       IN  /\ sii' = [sii EXCEPT !.cinfo_list_mutex = IF sc.held THEN 1 ELSE 0]
           /\ IF sc.ret = "OK"
              THEN /\ loc' = [loc EXCEPT ![t].ptr = loc[t].arg, ![t].seen = sc.target]
                   /\ pc' = [pc EXCEPT ![t] = "res_copy"]
                   /\ UNCHANGED res
              ELSE RaceReturn(t, "resolve", sc.ret, NoTarget, << Ev("lookup") >>)
    /\ UNCHANGED <<sbi, lower, hist>>

\* Lines 211-214: target->offset = cinfo->offset; target->size = cinfo->size.
\* Reading an entry or an array that was freed gives the old bytes (stale) or
\* whatever the memory holds now.
ResCopy(t) ==
    /\ pc[t] = "res_copy"
    /\ \E stale \in (IF loc[t].dangling \/ (loc[t].ptr < 0 /\ sii.cinfo_array_st = "freed")
                     THEN BOOLEAN ELSE {TRUE}) :
         RaceReturn(t, "resolve", "OK",
                    IF ~stale THEN GarbageDesc
                    ELSE IF loc[t].ptr >= 0 THEN loc[t].seen
                    ELSE IF loc[t].arg + 1 <= Len(sii.cinfo_array)
                    THEN sii.cinfo_array[loc[t].arg + 1] ELSE GarbageDesc,
                    << [ev |-> "copy", from_list |-> loc[t].ptr >= 0,
                        freed |-> IF loc[t].ptr >= 0 THEN loc[t].dangling
                                  ELSE sii.cinfo_array_st = "freed"] >>)
    /\ UNCHANGED <<sii, sbi, lower, hist>>

\* Line 1096: truncate_setsize(inode, 0).  The caller of a truncate holds the
\* i_mutex of the inode: one truncate runs at a time.
TrSetsize(t) ==
    /\ pc[t] = "idle"
    /\ \A u \in Threads : pc[u] \notin {"tr_lock", "tr_free", "tr_unlock", "tr_rest"}
    /\ sii' = [sii EXCEPT !.i_size = 0]
    /\ pc' = [pc EXCEPT ![t] = "tr_lock"]
    /\ UNCHANGED <<sbi, lower, loc, res, hist>>

\* Line 1097: mutex_lock(&sii->cinfo_list_mutex).
TrLock(t) ==
    /\ pc[t] = "tr_lock"
    /\ sii.cinfo_list_mutex = 0
    /\ sii' = [sii EXCEPT !.cinfo_list_mutex = 1]
    /\ pc' = [pc EXCEPT ![t] = "tr_free"]
    /\ UNCHANGED <<sbi, lower, loc, res, hist>>

\* Lines 1099-1107: every pending entry is unlinked and freed.  A pointer into
\* the list that another thread still has dangles from now on.
TrFree(t) ==
    /\ pc[t] = "tr_free"
    /\ sii' = [sii EXCEPT !.cinfo_list = << >>]
    /\ loc' = [u \in Threads |->
                 IF pc[u] = "res_copy" /\ loc[u].ptr >= 0
                 THEN [loc[u] EXCEPT !.dangling = TRUE] ELSE loc[u]]
    /\ pc' = [pc EXCEPT ![t] = "tr_unlock"]
    /\ UNCHANGED <<sbi, lower, res, hist>>

\* Line 1108: mutex_unlock.
TrUnlock(t) ==
    /\ pc[t] = "tr_unlock"
    /\ sii' = [sii EXCEPT !.cinfo_list_mutex = 0]
    /\ pc' = [pc EXCEPT ![t] = "tr_rest"]
    /\ UNCHANGED <<sbi, lower, loc, res, hist>>

\* Lines 1110-1132: the lower file is resized and the index state is reset.
TrRest(t) ==
    /\ pc[t] = "tr_rest"
    /\ \E io \in TruncIO :
         LET r == truncate_resize(World, io, << >>)
         IN  /\ SetWorld(r.w)
             /\ RaceReturn(t, "truncate", r.ret, NoTarget, r.log)
    /\ UNCHANGED hist

NextRace ==
    \E t \in Threads :
        \/ ResTest(t) \/ RlFooter(t) \/ RlGet(t) \/ RlFree(t) \/ RlAlloc(t)
        \/ RlInstall(t) \/ RlPut(t) \/ ResRange(t) \/ ResLock(t) \/ ResScan(t)
        \/ ResCopy(t)
        \/ TrSetsize(t) \/ TrLock(t) \/ TrFree(t) \/ TrUnlock(t) \/ TrRest(t)

SpecRace == InitRace /\ [][NextRace]_vars

\* ------------------------------------------------------------ claims, index mutex among threads
\* C21: under every interleaving of resolve with a truncate, the descriptor
\* resolve copies out of the pending list is read from an entry that has not
\* been freed.
C21_ReadsLiveEntry ==
    res.op = "resolve" =>
        \A i \in 1 .. Len(res.log) :
            (res.log[i].ev = "copy" /\ res.log[i].from_list) => ~res.log[i].freed

\* C22: the reload of a file marked invalid is run by one thread at a time, and
\* no thread is at the start of a reload when the flag has been cleared.
C22_ReloadSerialized ==
    /\ Cardinality({t \in Threads : InReload(t)}) <= 1
    /\ \A t \in Threads : pc[t] = "rl_footer" => sii.invalid_meta

====
